---- MODULE Spec2Model ----
(***************************************************************************)
(* Model of the zkSync operator's block committer                          *)
(* (core/bin/zksync_core/src/committer.rs) and of the transaction          *)
(* admission pipeline (core/bin/zksync_api/src/api_server/tx_sender.rs).   *)
(*                                                                         *)
(* The committer runs two tasks over one storage pool:                     *)
(*   - handle_new_commit_task drains the CommitRequest queue,              *)
(*   - poll_for_new_proofs_task applies the proofs found in storage.       *)
(* Every action of a task is one segment of its code between two await     *)
(* points: the awaited call completes (Ok or Err) and the synchronous code *)
(* after it runs up to the next await.                                     *)
(***************************************************************************)
EXTENDS Integers, Sequences, FiniteSets, TLC

(***************************************************************************)
(* Bounds of the model.                                                    *)
(***************************************************************************)
MaxRequests == 2        \* CommitRequests the block builder sends
MaxOps == 1             \* executed operations in one block
UpdatesPerRequest == 1  \* account updates carried by one request
InitVerified == 0       \* blocks already committed and verified when the node starts
MaxProofAhead == 1      \* how far beyond the sealed blocks the prover's proofs reach
QueueCapacity == 2      \* CommitRequests the queue holds before the sender has to wait

VARIABLES
    rx_for_ops,          \* the CommitRequest queue (mpsc receiver side)
    builder,             \* block builder: headers of the requests sent, blocks sealed, updates produced
    storage,             \* the committed content of the database
    committed_requests,  \* ids of the requests whose transaction committed, in commit order
    committer,           \* handle_new_commit_task: position, request, open transaction
    mempool,             \* the requests delivered to the mempool
    metrics,             \* committer.priority_ops_per_block samples
    poller,              \* poll_for_new_proofs_task: position, last_verified_block, transaction
    tick_target,         \* last block of the proven, committed run that started the current tick
    fee_case,            \* scale_user_fee_up: an argument and the value returned for it
    tx_sender,           \* TxSender: the configuration it was built with
    submission,          \* the call of submit_tx in progress: arguments, requests made, result
    batch_submission,    \* the call of submit_txs_batch in progress, likewise
    debug_assertions     \* is the build one with debug assertions (cfg(debug_assertions))?

committerVars == <<rx_for_ops, builder, storage, committed_requests,
                   committer, mempool, metrics, poller, tick_target>>

batchVars == <<batch_submission, debug_assertions>>

senderVars == <<fee_case, tx_sender, submission, batchVars>>

vars == <<committerVars, senderVars>>

(***************************************************************************)
(* Data.                                                                   *)
(***************************************************************************)
\* ExecutedOperations: an executed transaction (successful or failed,
\* Withdraw or not) or a priority operation.
ExecutedOperations ==
    { [op |-> "Tx", success |-> TRUE,  is_withdraw |-> TRUE ],
      [op |-> "Tx", success |-> FALSE, is_withdraw |-> TRUE ],
      [op |-> "Tx", success |-> TRUE,  is_withdraw |-> FALSE],
      [op |-> "PriorityOp", success |-> TRUE, is_withdraw |-> FALSE] }

SeqsUpTo(S, n) == UNION { [1..k -> S] : k \in 0..n }

BlockTransactions == SeqsUpTo(ExecutedOperations, MaxOps)

\* The hash of the transaction at position i of block n.
TxHashOf(n, i) == <<n, i>>

\* Variant: a Withdraw is recorded whether it succeeded or not.
IsSuccessfulWithdraw_AnyWithdraw(exec_op) ==
    exec_op.op = "Tx" /\ exec_op.is_withdraw

\* exec_op.get_executed_tx() is Some, the tx succeeded and is a Withdraw.
IsSuccessfulWithdraw(exec_op) ==
    exec_op.op = "Tx" /\ exec_op.success /\ exec_op.is_withdraw

\* The first position >= from of a successful Withdraw, 0 when there is none:
\* the next iteration of the loop of commit_block that awaits storage.
NextWithdrawal(ops, from) ==
    LET S == { i \in from..Len(ops) : IsSuccessfulWithdraw(ops[i]) }
    IN  IF S = {} THEN 0 ELSE CHOOSE i \in S : \A j \in S : i <= j

\* block_transactions.iter().filter(PriorityOp).count()
TotalPriorityOps(ops) == Cardinality({ i \in 1..Len(ops) : ops[i].op = "PriorityOp" })

\* The rows commit_state_update writes: one per update, at consecutive
\* positions of the global update order starting at first_update_order_id.
StateUpdateRows(block_number, account_updates, first_update_order_id) ==
    { [order_id |-> first_update_order_id + k, block |-> block_number]
        : k \in 0..(account_updates - 1) }

NoRequest ==
    [type |-> "None", id |-> 0, number |-> 0, block_transactions |-> <<>>,
     account_updates |-> 0, first_update_order_id |-> 0]

\* A storage transaction: the writes made through it, invisible to other
\* connections until commit() and dropped when the handle is dropped.
NoTransaction ==
    [open |-> FALSE, pending_withdrawals |-> {}, account_updates |-> {},
     pending_blocks |-> {}, operations |-> <<>>]

OpenTransaction == [NoTransaction EXCEPT !.open = TRUE]

\* transaction.commit(): all the writes of the transaction become visible at once.
ApplyTransaction(st, tx) ==
    [st EXCEPT !.pending_withdrawals = @ \cup tx.pending_withdrawals,
               !.account_updates = @ \cup tx.account_updates,
               !.pending_blocks = @ \cup tx.pending_blocks,
               !.operations = @ \o tx.operations]

StorageResults == {"Ok", "Err"}

\* Blocks that have a Commit (Verify) operation in storage.
CommittedBlocks(st) ==
    { st.operations[i].block : i \in { j \in 1..Len(st.operations) : st.operations[j].action = "Commit" } }

VerifiedBlocks(st) ==
    { st.operations[i].block : i \in { j \in 1..Len(st.operations) : st.operations[j].action = "Verify" } }

Max(S) == IF S = {} THEN 0 ELSE CHOOSE x \in S : \A y \in S : y <= x

\* block_schema().get_last_verified_block()
GetLastVerifiedBlock(st) == Max(VerifiedBlocks(st))

\* block_schema().load_committed_block(n) is Some
LoadCommittedBlock(st, n) == n \in CommittedBlocks(st)

\* The number of the last block the block builder has sealed.
LastSealedBlock == InitVerified + builder.sealed

(***************************************************************************)
(* Initial state: the node starts on a database in which the blocks        *)
(* 1..v are committed and verified.                                        *)
(***************************************************************************)
InitialOperations(v) ==
    [i \in 1..(2 * v) |->
        IF i <= v THEN [action |-> "Commit", block |-> i]
                  ELSE [action |-> "Verify", block |-> i - v]]

CommitterInit ==
    /\ rx_for_ops = <<>>
    /\ builder = [sent |-> <<>>, sealed |-> 0, updates_count |-> 0]
    /\ storage = [pending_withdrawals |-> {}, account_updates |-> {},
                  pending_blocks |-> {}, operations |-> InitialOperations(InitVerified),
                  proofs |-> 1..InitVerified]
    /\ committed_requests = <<>>
    /\ committer = [pc |-> "rx_next", state |-> "running", request |-> NoRequest,
                    exec_op |-> 0, transaction |-> NoTransaction, result |-> "Ok"]
    /\ mempool = <<>>
    /\ metrics = <<>>
    /\ poller = [pc |-> "get_last_verified_block", state |-> "running",
                 last_verified_block |-> 0, proof |-> "None",
                 transaction |-> NoTransaction, result |-> "Ok"]
    /\ tick_target = InitVerified

(***************************************************************************)
(* Environment of the committer: the block builder that sends              *)
(* CommitRequests and the external prover that stores proofs.              *)
(***************************************************************************)
NextBlockNumber == LastSealedBlock + 1

\* main has returned: the tasks the runtime had spawned are gone. The block
\* builder and the prover server are actors of the same process.
Exited == committer.state = "stopped" \/ poller.state = "stopped"

\* The hashes of the successful Withdraw transactions of a block.
SuccessfulWithdrawals(number, ops) ==
    { TxHashOf(number, i) : i \in { j \in 1..Len(ops) : IsSuccessfulWithdraw(ops[j]) } }

\* What the block builder remembers of a request it sent.
Header(req) ==
    [type |-> req.type, id |-> req.id, number |-> req.number,
     withdrawals |-> SuccessfulWithdrawals(req.number, req.block_transactions),
     updates |-> StateUpdateRows(req.number, req.account_updates, req.first_update_order_id)]

NewRequest(type, ops) ==
    [type |-> type, id |-> Len(builder.sent) + 1, number |-> NextBlockNumber,
     block_transactions |-> ops, account_updates |-> UpdatesPerRequest,
     first_update_order_id |-> builder.updates_count]

\* The block builder sends the pending (unsealed) state of the next block.
SendPendingBlock ==
    /\ ~Exited
    /\ Len(builder.sent) < MaxRequests
    /\ Len(rx_for_ops) < QueueCapacity
    /\ rx_for_ops' = Append(rx_for_ops, NewRequest("PendingBlock", <<>>))
    /\ builder' = [builder EXCEPT !.sent = Append(@, Header(NewRequest("PendingBlock", <<>>))),
                                  !.updates_count = @ + UpdatesPerRequest]
    /\ UNCHANGED <<storage, committed_requests, committer, mempool, metrics, poller, tick_target, senderVars>>

\* The block builder seals the next block and sends it for commit.
SendBlock ==
    /\ ~Exited
    /\ Len(builder.sent) < MaxRequests
    /\ Len(rx_for_ops) < QueueCapacity
    /\ \E ops \in BlockTransactions :
          /\ rx_for_ops' = Append(rx_for_ops, NewRequest("Block", ops))
          /\ builder' = [builder EXCEPT !.sent = Append(@, Header(NewRequest("Block", ops))),
                                        !.sealed = @ + 1,
                                        !.updates_count = @ + UpdatesPerRequest]
    /\ UNCHANGED <<storage, committed_requests, committer, mempool, metrics, poller, tick_target, senderVars>>

\* The external prover stores the proof of some block.
StoreProof ==
    /\ ~Exited
    /\ \E n \in 1..(LastSealedBlock + MaxProofAhead) :
          /\ n \notin storage.proofs
          /\ storage' = [storage EXCEPT !.proofs = @ \cup {n}]
    /\ UNCHANGED <<rx_for_ops, builder, committed_requests, committer,
                   mempool, metrics, poller, tick_target, senderVars>>

(***************************************************************************)
(* handle_new_commit_task                                                  *)
(***************************************************************************)
\* An expect() on an Err: the task panics, its transaction handle is dropped
\* and with it every write made through it.
Panicked(task) ==
    [task EXCEPT !.pc = "panicked", !.state = "panicked", !.result = "Err",
                 !.transaction = NoTransaction]

\* A panic of handle_new_commit_task also drops its locals.
CommitterPanicked(task) ==
    [Panicked(task) EXCEPT !.pc = task.pc, !.request = NoRequest, !.exec_op = 0]

CommitterAt(pc) == committer.state = "running" /\ committer.pc = pc

CommitterOnly == UNCHANGED <<rx_for_ops, builder, storage, committed_requests,
                             mempool, metrics, poller, tick_target, senderVars>>

\* Variant: the newest request of the queue is taken first.
RxNext_Newest(queue) ==
    [request |-> queue[Len(queue)], rest |-> SubSeq(queue, 1, Len(queue) - 1)]

\* rx_for_ops.next().await: the oldest request of the queue is taken.
RxNext(queue) == [request |-> Head(queue), rest |-> Tail(queue)]

handle_new_commit_task ==
    /\ CommitterAt("rx_next")
    /\ rx_for_ops # <<>>
    /\ LET request == RxNext(rx_for_ops).request
       IN  committer' = [committer EXCEPT
                !.request = request,
                !.pc = IF request.type = "Block" THEN "commit_block.access_storage"
                       ELSE "save_pending_block.access_storage"]
    /\ rx_for_ops' = RxNext(rx_for_ops).rest
    /\ UNCHANGED <<builder, storage, committed_requests, mempool, metrics,
                   poller, tick_target, senderVars>>

(***************************************************************************)
(* save_pending_block                                                      *)
(***************************************************************************)
save_pending_block_access_storage ==
    /\ CommitterAt("save_pending_block.access_storage")
    /\ \E res \in StorageResults :
          committer' = IF res = "Err" THEN CommitterPanicked(committer)
                       ELSE [committer EXCEPT !.pc = "save_pending_block.start_transaction",
                                              !.result = "Ok"]
    /\ CommitterOnly

save_pending_block_start_transaction ==
    /\ CommitterAt("save_pending_block.start_transaction")
    /\ \E res \in StorageResults :
          committer' = IF res = "Err" THEN CommitterPanicked(committer)
                       ELSE [committer EXCEPT !.pc = "save_pending_block.save_pending_block",
                                              !.transaction = OpenTransaction,
                                              !.result = "Ok"]
    /\ CommitterOnly

\* The handle the pending block is written through.
SavePendingBlockWrite(tx, request) ==
    [tx EXCEPT !.pending_blocks = @ \cup {[number |-> request.number, id |-> request.id]}]

save_pending_block_save ==
    /\ CommitterAt("save_pending_block.save_pending_block")
    /\ \E res \in StorageResults :
          committer' = IF res = "Err" THEN CommitterPanicked(committer)
                       ELSE [committer EXCEPT
                                !.pc = "save_pending_block.commit_state_update",
                                !.transaction = SavePendingBlockWrite(@, committer.request),
                                !.result = "Ok"]
    /\ CommitterOnly

CommitStateUpdateWrite(tx, request) ==
    [tx EXCEPT !.account_updates = @ \cup
        StateUpdateRows(request.number, request.account_updates, request.first_update_order_id)]

\* Variant: an Err of commit_state_update is dropped and the task goes on.
SavePendingBlockStateUpdate_Swallow(task, res) ==
    [task EXCEPT !.pc = "save_pending_block.commit",
                 !.transaction = IF res = "Err" THEN @
                                 ELSE CommitStateUpdateWrite(@, task.request),
                 !.result = res]

\* commit_state_update(..).await.expect(..) of save_pending_block
SavePendingBlockStateUpdate(task, res) ==
    IF res = "Err" THEN CommitterPanicked(task)
    ELSE [task EXCEPT !.pc = "save_pending_block.commit",
                      !.transaction = CommitStateUpdateWrite(@, task.request),
                      !.result = "Ok"]

save_pending_block_commit_state_update ==
    /\ CommitterAt("save_pending_block.commit_state_update")
    /\ \E res \in StorageResults :
          committer' = SavePendingBlockStateUpdate(committer, res)
    /\ CommitterOnly

save_pending_block_commit ==
    /\ CommitterAt("save_pending_block.commit")
    /\ \E res \in StorageResults :
          IF res = "Err"
          THEN /\ committer' = CommitterPanicked(committer)
               /\ UNCHANGED <<storage, committed_requests>>
          ELSE /\ storage' = ApplyTransaction(storage, committer.transaction)
               /\ committed_requests' = Append(committed_requests, committer.request.id)
               /\ committer' = [committer EXCEPT !.pc = "rx_next", !.request = NoRequest,
                                                 !.transaction = NoTransaction,
                                                 !.result = "Ok"]
    /\ UNCHANGED <<rx_for_ops, builder, mempool, metrics, poller, tick_target, senderVars>>

(***************************************************************************)
(* commit_block                                                            *)
(***************************************************************************)
commit_block_access_storage ==
    /\ CommitterAt("commit_block.access_storage")
    /\ \E res \in StorageResults :
          committer' = IF res = "Err" THEN CommitterPanicked(committer)
                       ELSE [committer EXCEPT !.pc = "commit_block.start_transaction",
                                              !.result = "Ok"]
    /\ CommitterOnly

\* The loop over block.block_transactions, entered at position from: it
\* runs to the next successful Withdraw, where add_pending_withdrawal is
\* awaited; past the last one the priority operations are counted for the
\* metric and commit_state_update is awaited.
ContinueWithdrawalLoop(task, tx, from) ==
    LET i == NextWithdrawal(task.request.block_transactions, from)
    IN  [task EXCEPT !.transaction = tx,
                     !.result = "Ok",
                     !.exec_op = i,
                     !.pc = IF i # 0 THEN "commit_block.add_pending_withdrawal"
                            ELSE "commit_block.commit_state_update"]

PriorityOpsSample(request) ==
    [block |-> request.number, count |-> TotalPriorityOps(request.block_transactions)]

MetricsAfterLoop(task, from) ==
    IF NextWithdrawal(task.request.block_transactions, from) = 0
    THEN Append(metrics, PriorityOpsSample(task.request))
    ELSE metrics

commit_block_start_transaction ==
    /\ CommitterAt("commit_block.start_transaction")
    /\ \E res \in StorageResults :
          IF res = "Err"
          THEN /\ committer' = CommitterPanicked(committer)
               /\ UNCHANGED metrics
          ELSE /\ committer' = ContinueWithdrawalLoop(committer, OpenTransaction, 1)
               /\ metrics' = MetricsAfterLoop(committer, 1)
    /\ UNCHANGED <<rx_for_ops, builder, storage, committed_requests,
                   mempool, poller, tick_target, senderVars>>

\* add_pending_withdrawal(&exec_tx.signed_tx.tx.hash(), None) through the transaction.
AddPendingWithdrawalWrite(tx, request, i) ==
    [tx EXCEPT !.pending_withdrawals = @ \cup {TxHashOf(request.number, i)}]

commit_block_add_pending_withdrawal ==
    /\ CommitterAt("commit_block.add_pending_withdrawal")
    /\ \E res \in StorageResults :
          IF res = "Err"
          THEN /\ committer' = CommitterPanicked(committer)
               /\ UNCHANGED metrics
          ELSE /\ committer' = ContinueWithdrawalLoop(committer,
                                  AddPendingWithdrawalWrite(committer.transaction,
                                      committer.request, committer.exec_op),
                                  committer.exec_op + 1)
               /\ metrics' = MetricsAfterLoop(committer, committer.exec_op + 1)
    /\ UNCHANGED <<rx_for_ops, builder, storage, committed_requests,
                   mempool, poller, tick_target, senderVars>>

\* Variant: an Err of commit_state_update is dropped and the task goes on.
CommitBlockStateUpdate_Swallow(task, res) ==
    [task EXCEPT !.pc = "commit_block.execute_operation",
                 !.transaction = IF res = "Err" THEN @
                                 ELSE CommitStateUpdateWrite(@, task.request),
                 !.result = res]

\* commit_state_update(..).await.expect(..) of commit_block
CommitBlockStateUpdate(task, res) ==
    IF res = "Err" THEN CommitterPanicked(task)
    ELSE [task EXCEPT !.pc = "commit_block.execute_operation",
                      !.transaction = CommitStateUpdateWrite(@, task.request),
                      !.result = "Ok"]

commit_block_commit_state_update ==
    /\ CommitterAt("commit_block.commit_state_update")
    /\ \E res \in StorageResults :
          committer' = CommitBlockStateUpdate(committer, res)
    /\ CommitterOnly

\* execute_operation(op): the operation record is appended; storage assigns
\* its id (the position) on insert.
ExecuteOperationWrite(tx, action, block_number) ==
    [tx EXCEPT !.operations = Append(@, [action |-> action, block |-> block_number])]

commit_block_execute_operation ==
    /\ CommitterAt("commit_block.execute_operation")
    /\ \E res \in StorageResults :
          committer' = IF res = "Err" THEN CommitterPanicked(committer)
                       ELSE [committer EXCEPT
                                !.pc = "commit_block.send",
                                !.transaction = ExecuteOperationWrite(@, "Commit",
                                                    committer.request.number),
                                !.result = "Ok"]
    /\ CommitterOnly

\* Variant: a failed send is fatal (expect instead of unwrap_or_default).
AfterMempoolSend_Expect(task, res) ==
    IF res = "Err" THEN CommitterPanicked(task)
    ELSE [task EXCEPT !.pc = "commit_block.commit"]

\* mempool_req_sender.send(UpdateNonces(accounts_updated)).await
\*     .map_err(|e| warn!(..)).unwrap_or_default()
\* A failed send is logged and the task goes on.
AfterMempoolSend(task, res) ==
    [task EXCEPT !.pc = "commit_block.commit"]

SendResults == {"Ok", "Err"}

commit_block_send ==
    /\ CommitterAt("commit_block.send")
    /\ \E res \in SendResults :
          /\ mempool' = IF res = "Ok"
                        THEN Append(mempool, [request |-> "UpdateNonces",
                                              block |-> committer.request.number])
                        ELSE mempool
          /\ committer' = AfterMempoolSend(committer, res)
    /\ UNCHANGED <<rx_for_ops, builder, storage, committed_requests,
                   metrics, poller, tick_target, senderVars>>

commit_block_commit ==
    /\ CommitterAt("commit_block.commit")
    /\ \E res \in StorageResults :
          IF res = "Err"
          THEN /\ committer' = CommitterPanicked(committer)
               /\ UNCHANGED <<storage, committed_requests>>
          ELSE /\ storage' = ApplyTransaction(storage, committer.transaction)
               /\ committed_requests' = Append(committed_requests, committer.request.id)
               /\ committer' = [committer EXCEPT !.pc = "rx_next", !.request = NoRequest,
                                                 !.exec_op = 0,
                                                 !.transaction = NoTransaction,
                                                 !.result = "Ok"]
    /\ UNCHANGED <<rx_for_ops, builder, mempool, metrics, poller, tick_target, senderVars>>

(***************************************************************************)
(* poll_for_new_proofs_task                                                *)
(***************************************************************************)
\* A panic of poll_for_new_proofs_task also drops its locals.
PollerPanicked(task) ==
    [Panicked(task) EXCEPT !.last_verified_block = 0, !.proof = "None"]

PollerAt(pc) == poller.state = "running" /\ poller.pc = pc

PollerOnly == UNCHANGED <<rx_for_ops, builder, storage, committed_requests,
                          committer, mempool, metrics, tick_target, senderVars>>

\* let mut last_verified_block = { access_storage; get_last_verified_block }
poll_get_last_verified_block ==
    /\ PollerAt("get_last_verified_block")
    /\ \E res \in StorageResults :
          poller' = IF res = "Err" THEN PollerPanicked(poller)
                    ELSE [poller EXCEPT !.pc = "tick",
                                        !.last_verified_block = GetLastVerifiedBlock(storage),
                                        !.result = "Ok"]
    /\ PollerOnly

\* The last block N >= from such that every block of from+1..N has a proof
\* and is committed.
ProvenRun(st, from) ==
    Max({ n \in from..(from + Cardinality(st.proofs)) :
            \A m \in (from + 1)..n : m \in st.proofs /\ m \in CommittedBlocks(st) })

\* timer.tick().await
poll_tick ==
    /\ PollerAt("tick")
    /\ poller' = [poller EXCEPT !.pc = "access_storage"]
    /\ tick_target' = ProvenRun(storage, poller.last_verified_block)
    /\ UNCHANGED <<rx_for_ops, builder, storage, committed_requests,
                   committer, mempool, metrics, senderVars>>

poll_access_storage ==
    /\ PollerAt("access_storage")
    /\ \E res \in StorageResults :
          poller' = IF res = "Err" THEN PollerPanicked(poller)
                    ELSE [poller EXCEPT !.pc = "load_proof", !.result = "Ok"]
    /\ PollerOnly

\* prover_schema().load_proof(block_number): Ok(Some), Ok(None) or Err.
LoadProof(st, block_number, res) ==
    IF res = "Err" THEN "Err"
    ELSE IF block_number \in st.proofs THEN "Some" ELSE "None"

\* Variant: the pattern is Ok(_), a missing proof is not told from a proof.
AfterLoadProof_AnyOk(task, proof) ==
    [task EXCEPT !.proof = proof,
                 !.result = IF proof = "Err" THEN "Err" ELSE "Ok",
                 !.pc = IF proof # "Err" THEN "start_transaction" ELSE "tick"]

\* Variant: a proof that was found is not looked at; the loop waits for
\* the next tick.
AfterLoadProof_Ignored(task, proof) ==
    [task EXCEPT !.proof = proof,
                 !.result = IF proof = "Err" THEN "Err" ELSE "Ok",
                 !.pc = "tick"]

\* if let Ok(Some(proof)) = proof { .. } else { break }
AfterLoadProof(task, proof) ==
    [task EXCEPT !.proof = proof,
                 !.result = IF proof = "Err" THEN "Err" ELSE "Ok",
                 !.pc = IF proof = "Some" THEN "start_transaction" ELSE "tick"]

poll_load_proof ==
    /\ PollerAt("load_proof")
    /\ \E res \in StorageResults :
          poller' = AfterLoadProof(poller,
                        LoadProof(storage, poller.last_verified_block + 1, res))
    /\ PollerOnly

poll_start_transaction ==
    /\ PollerAt("start_transaction")
    /\ \E res \in StorageResults :
          poller' = IF res = "Err" THEN PollerPanicked(poller)
                    ELSE [poller EXCEPT !.pc = "load_committed_block",
                                        !.transaction = OpenTransaction,
                                        !.result = "Ok"]
    /\ PollerOnly

\* Variant: the block is not required to be committed.
AfterLoadCommittedBlock_Unchecked(task, found) ==
    [task EXCEPT !.pc = "execute_operation", !.result = "Ok"]

\* load_committed_block(block_number).await.unwrap_or_else(|| panic!(..))
AfterLoadCommittedBlock(task, found) ==
    IF found THEN [task EXCEPT !.pc = "execute_operation", !.result = "Ok"]
    ELSE [PollerPanicked(task) EXCEPT !.result = "Ok"]

poll_load_committed_block ==
    /\ PollerAt("load_committed_block")
    /\ \E res \in StorageResults :
          poller' = IF res = "Err" THEN PollerPanicked(poller)
                    ELSE AfterLoadCommittedBlock(poller,
                            LoadCommittedBlock(storage, poller.last_verified_block + 1))
    /\ PollerOnly

\* Variant: the Verify operation is stored and the counter is left as it is.
AfterExecuteVerify_NoIncrement(task) ==
    [task EXCEPT !.pc = "commit",
                 !.transaction = ExecuteOperationWrite(@, "Verify", task.last_verified_block + 1),
                 !.result = "Ok"]

\* execute_operation(Verify) through the transaction, then
\* *last_verified_block += 1.
AfterExecuteVerify(task) ==
    [task EXCEPT !.pc = "commit",
                 !.transaction = ExecuteOperationWrite(@, "Verify", task.last_verified_block + 1),
                 !.last_verified_block = @ + 1,
                 !.result = "Ok"]

poll_execute_operation ==
    /\ PollerAt("execute_operation")
    /\ \E res \in StorageResults :
          poller' = IF res = "Err" THEN PollerPanicked(poller) ELSE AfterExecuteVerify(poller)
    /\ PollerOnly

poll_commit ==
    /\ PollerAt("commit")
    /\ \E res \in StorageResults :
          IF res = "Err"
          THEN /\ poller' = PollerPanicked(poller)
               /\ UNCHANGED storage
          ELSE /\ storage' = ApplyTransaction(storage, poller.transaction)
               /\ poller' = [poller EXCEPT !.pc = "load_proof",
                                           !.transaction = NoTransaction,
                                           !.result = "Ok"]
    /\ UNCHANGED <<rx_for_ops, builder, committed_requests, committer,
                   mempool, metrics, tick_target, senderVars>>

(***************************************************************************)
(* BigDecimal: an integer and the number of its digits after the decimal   *)
(* point; the value is int_val / 10^scale.                                 *)
(***************************************************************************)
MaxFeeDigits == 40      \* largest int_val of an argument of scale_user_fee_up
MaxFeeScale == 3        \* largest scale of an argument of scale_user_fee_up
MAX_PRECISION == 100    \* digits after which BigDecimal's division stops

RECURSIVE Pow10(_)
Pow10(n) == IF n = 0 THEN 1 ELSE 10 * Pow10(n - 1)

BigDecimal(int_val, scale) == [int_val |-> int_val, scale |-> scale]

\* BigDecimal::from_str("0.01")
one_cent == BigDecimal(1, 2)

\* Number of decimal digits of a positive integer.
RECURSIVE CountDecimalDigits(_)
CountDecimalDigits(n) == IF n < 10 THEN 1 ELSE 1 + CountDecimalDigits(n \div 10)

\* a < b on the values: both are brought to the larger scale.
BdLess(a, b) == a.int_val * Pow10(b.scale) < b.int_val * Pow10(a.scale)

BdEq(a, b) == a.int_val * Pow10(b.scale) = b.int_val * Pow10(a.scale)

\* a * b: the integers are multiplied, the scales added.
BdMul(a, b) == BigDecimal(a.int_val * b.int_val, a.scale + b.scale)

\* a + b: the operand of smaller scale is brought to the larger scale.
BdAdd(a, b) ==
    IF a.scale >= b.scale
    THEN BigDecimal(a.int_val + b.int_val * Pow10(a.scale - b.scale), a.scale)
    ELSE BigDecimal(a.int_val * Pow10(b.scale - a.scale) + b.int_val, b.scale)

\* The digit loop of the division: one more digit of the quotient per round
\* while the remainder is not zero and the precision is not exhausted.
RECURSIVE DivisionDigits(_, _, _, _, _)
DivisionDigits(quotient, remainder, den, scale, precision) ==
    IF remainder = 0 \/ precision >= MAX_PRECISION
    THEN BigDecimal(quotient, scale)
    ELSE DivisionDigits(quotient * 10 + (remainder \div den), (remainder % den) * 10,
                        den, scale + 1, precision + 1)

\* The numerator is shifted until it is not smaller than the denominator.
RECURSIVE ShiftNumerator(_, _, _)
ShiftNumerator(num, den, scale) ==
    IF num < den THEN ShiftNumerator(num * 10, den, scale + 1)
    ELSE [num |-> num, scale |-> scale]

ImplDivision(num, den, scale) ==
    LET s == ShiftNumerator(num, den, scale)
        quotient == s.num \div den
        remainder == s.num % den
    IN  IF remainder = 0 THEN BigDecimal(quotient, s.scale)
        ELSE DivisionDigits(quotient, remainder * 10, den, s.scale,
                            CountDecimalDigits(quotient))

\* a / b for a positive b.
BdDiv(a, b) ==
    IF a.int_val = 0 \/ (b.int_val = 1 /\ b.scale = 0) THEN a
    ELSE IF a.int_val = b.int_val THEN BigDecimal(1, a.scale - b.scale)
    ELSE ImplDivision(a.int_val, b.int_val, a.scale - b.scale)

\* std::cmp::max(a, b): b unless a is greater.
BdMax(a, b) == IF BdLess(b, a) THEN a ELSE b

\* Variant: only the 5 percent are added, the cent is forgotten.
scale_user_fee_up_PercentOnly(provided_total_usd_fee) ==
    IF BdLess(provided_total_usd_fee, one_cent)
    THEN BdMul(provided_total_usd_fee, BigDecimal(2, 0))
    ELSE BdDiv(BdMul(provided_total_usd_fee, BigDecimal(105, 0)), BigDecimal(100, 0))

scale_user_fee_up(provided_total_usd_fee) ==
    IF BdLess(provided_total_usd_fee, one_cent)
    THEN BdMul(provided_total_usd_fee, BigDecimal(2, 0))
    ELSE LET scaled_percent_provided_fee_in_usd ==
                 BdDiv(BdMul(provided_total_usd_fee, BigDecimal(105, 0)), BigDecimal(100, 0))
             scaled_one_cent_provided_fee_in_usd ==
                 BdAdd(provided_total_usd_fee, one_cent)
         IN  BdMax(scaled_percent_provided_fee_in_usd, scaled_one_cent_provided_fee_in_usd)

NoDecimal == BigDecimal(0, 0)

\* A caller passes a fee to scale_user_fee_up.
ProvideFee ==
    /\ \E n \in 0..MaxFeeDigits, s \in 0..MaxFeeScale :
          fee_case' = [provided |-> BigDecimal(n, s), scaled |-> NoDecimal, returned |-> FALSE]
    /\ UNCHANGED <<committerVars, tx_sender, submission, batchVars>>

ScaleUserFeeUp ==
    /\ ~fee_case.returned
    /\ fee_case' = [fee_case EXCEPT !.scaled = scale_user_fee_up(fee_case.provided),
                                    !.returned = TRUE]
    /\ UNCHANGED <<committerVars, tx_sender, submission, batchVars>>

FeeInit == fee_case = [provided |-> NoDecimal, scaled |-> NoDecimal, returned |-> FALSE]

(***************************************************************************)
(* TxSender::submit_tx                                                     *)
(*                                                                         *)
(* One call is one action: the arguments are drawn from bounded sets and   *)
(* so is the answer of every collaborator the call consults (storage, the  *)
(* fee ticker, the signature verifier, the core server). An answer is      *)
(* drawn only for a request the call makes.                                *)
(***************************************************************************)
MaxFee == 2             \* largest fee a transaction declares
MinAccountAge == 1      \* forced_exit_minimum_account_age, in time units

TxKinds == {"Transfer", "Withdraw", "ForcedExit", "ChangePubKey", "Close"}

\* Token symbols; GNT is the symbol of the Golem workaround.
TokenSymbols == {"ETH", "GNT"}

\* A transaction: its kind, the token of its fee, the fee, and for a
\* Withdraw the fast flag.
ZkSyncTxs ==
    { [kind |-> k, token |-> t, fee |-> f, fast |-> fast] :
        k \in TxKinds, t \in TokenSymbols, f \in 0..MaxFee, fast \in BOOLEAN }

WellFormedTxs == { tx \in ZkSyncTxs : tx.fast => tx.kind = "Withdraw" }

Signatures == {"None", "Sig"}

FastProcessingParams == {"None", "true", "false"}

\* An answer: its status and, for a status that carries one, a number.
Answer(status, value) == [status |-> status, value |-> value]

NotAsked == Answer("NotAsked", 0)

Plain(statuses) == { Answer(st, 0) : st \in statuses }

\* account_created_on: a storage error, no account, or the age of the account.
AccountAnswers ==
    Plain({"Err", "None"}) \cup { Answer("Some", age) : age \in 0..(MinAccountAge + 1) }

\* IsTokenAllowed: Ok(true), Ok(false), an error of the ticker, or the
\* channel closed before the send or before the answer.
TokenAllowedAnswers == Plain({"Allowed", "NotAllowed", "Err", "SendErr", "RecvErr"})

\* GetTxFee: the required fee, or the failures above.
TxFeeAnswers ==
    { Answer("Ok", fee) : fee \in 0..(MaxFee + 1) } \cup Plain({"Err", "SendErr", "RecvErr"})

\* The decimals a token of the database may have.
TokenDecimals == {6, 18}

\* token_info_from_id: the token (its decimals; its symbol is the one the
\* transaction names), no such token, or a storage error.
TokenAnswers ==
    { Answer("Found", decimals) : decimals \in TokenDecimals } \cup Plain({"NotFound", "Err"})

\* The signature verifier: verified, rejected, or the channel closed before
\* the send or before the answer.
VerifyAnswers == Plain({"Ok", "IncorrectEthSignature", "SendErr", "RecvErr"})

\* The core server: accepted, rejected by the mempool, or unreachable.
CoreAnswers == Plain({"Ok", "NonceMismatch", "CommErr"})

is_close(tx) == tx.kind = "Close"

is_withdraw(tx) == tx.kind = "Withdraw"

\* tx.get_fee_info(): the fee type, token and fee of a transaction that pays a fee.
\* (tx_type "None" stands for the None of a transaction that pays no fee.)
get_fee_info(tx) ==
    [tx_type |-> IF tx.kind = "Close" THEN "None"
                 ELSE IF tx.kind = "Withdraw" THEN (IF tx.fast THEN "FastWithdraw" ELSE "Withdraw")
                 ELSE IF tx.kind = "ForcedExit" THEN "Withdraw"
                 ELSE tx.kind,
     token |-> tx.token,
     provided_fee |-> tx.fee]

\* Variant: an account of exactly the minimum age is still too young.
check_forced_exit_Inclusive(account_age, minimum_account_age) ==
    IF account_age.status = "Err" THEN "Internal"
    ELSE IF account_age.status = "None" THEN "InvalidParams(Target account does not exist)"
    ELSE IF account_age.value <= minimum_account_age
         THEN "InvalidParams(Target account exists less than required minimum amount)"
    ELSE "Ok"

check_forced_exit(account_age, minimum_account_age) ==
    IF account_age.status = "Err" THEN "Internal"
    ELSE IF account_age.status = "None" THEN "InvalidParams(Target account does not exist)"
    ELSE IF account_age.value < minimum_account_age
         THEN "InvalidParams(Target account exists less than required minimum amount)"
    ELSE "Ok"

\* Variant: neither use of fast processing is rejected.
SubmitTxPreChecks_FastUnchecked(sender, tx, fast_processing_param, account_age) ==
    LET fast_processing == (fast_processing_param = "true")
        forced_exit == IF tx.kind = "ForcedExit"
                       THEN check_forced_exit(account_age, sender.forced_exit_minimum_account_age)
                       ELSE "Ok"
    IN  IF is_close(tx) THEN [result |-> "AccountCloseDisabled", tx |-> tx]
        ELSE IF forced_exit # "Ok" THEN [result |-> forced_exit, tx |-> tx]
        ELSE IF is_withdraw(tx) THEN [result |-> "Ok", tx |-> [tx EXCEPT !.fast = fast_processing]]
        ELSE [result |-> "Ok", tx |-> tx]

\* Variant: the fast flag of a Withdraw is left as the caller sent it.
SubmitTxPreChecks_KeepFast(sender, tx, fast_processing_param, account_age) ==
    LET fast_processing == (fast_processing_param = "true")
        forced_exit == IF tx.kind = "ForcedExit"
                       THEN check_forced_exit(account_age, sender.forced_exit_minimum_account_age)
                       ELSE "Ok"
    IN  IF is_close(tx) THEN [result |-> "AccountCloseDisabled", tx |-> tx]
        ELSE IF forced_exit # "Ok" THEN [result |-> forced_exit, tx |-> tx]
        ELSE IF fast_processing /\ ~is_withdraw(tx)
             THEN [result |-> "UnsupportedFastProcessing", tx |-> tx]
        ELSE IF is_withdraw(tx) /\ tx.fast THEN [result |-> "IncorrectTx", tx |-> tx]
        ELSE [result |-> "Ok", tx |-> tx]

\* The checks of submit_tx before the fee: the result and the transaction
\* with its fast flag set from the parameter.
SubmitTxPreChecks(sender, tx, fast_processing_param, account_age) ==
    LET fast_processing == (fast_processing_param = "true")
        forced_exit == IF tx.kind = "ForcedExit"
                       THEN check_forced_exit(account_age, sender.forced_exit_minimum_account_age)
                       ELSE "Ok"
    IN  IF is_close(tx) THEN [result |-> "AccountCloseDisabled", tx |-> tx]
        ELSE IF forced_exit # "Ok" THEN [result |-> forced_exit, tx |-> tx]
        ELSE IF fast_processing /\ ~is_withdraw(tx)
             THEN [result |-> "UnsupportedFastProcessing", tx |-> tx]
        ELSE IF is_withdraw(tx) /\ tx.fast THEN [result |-> "IncorrectTx", tx |-> tx]
        ELSE IF is_withdraw(tx) THEN [result |-> "Ok", tx |-> [tx EXCEPT !.fast = fast_processing]]
        ELSE [result |-> "Ok", tx |-> tx]

\* a >= b on BigDecimal values.
BdGeq(a, b) == ~BdLess(a, b)

\* Variant: the declared fee is compared as it is, without scaling.
FeeTooLow_Unscaled(required_fee, provided_fee, should_enforce_fee) ==
    BdGeq(required_fee, provided_fee) /\ should_enforce_fee

\* Variant: the fee is never enforced.
FeeTooLow_NeverEnforced(required_fee, provided_fee, should_enforce_fee) == FALSE

\* Variant: a required fee equal to the scaled fee is let through.
FeeTooLow_Strict(required_fee, provided_fee, should_enforce_fee) ==
    BdLess(scale_user_fee_up(provided_fee), required_fee) /\ should_enforce_fee

\* required_fee >= scale_user_fee_up(provided_fee) && should_enforce_fee
FeeTooLow(required_fee, provided_fee, should_enforce_fee) ==
    BdGeq(required_fee, scale_user_fee_up(provided_fee)) /\ should_enforce_fee

\* Variant: the answer "not allowed" is not looked at.
TokenAllowedResult_Permissive(answer) ==
    IF answer.status \in {"SendErr", "RecvErr"} THEN "panic"
    ELSE IF answer.status = "Err" THEN "Internal"
    ELSE "Ok"

\* token_allowed_for_fees: the send and the receive are expect()ed.
TokenAllowedResult(answer) ==
    IF answer.status \in {"SendErr", "RecvErr"} THEN "panic"
    ELSE IF answer.status = "Err" THEN "Internal"
    ELSE IF answer.status = "NotAllowed" THEN "InappropriateFeeToken"
    ELSE "Ok"

\* The fee block of submit_tx.
SubmitTxFeeCheck(sender, tx, allowed, required) ==
    LET tx_fee_info == get_fee_info(tx)
        should_enforce_fee ==
            tx_fee_info.tx_type # "ChangePubKey" \/ sender.enforce_pubkey_change_fee
    IN  IF tx_fee_info.tx_type = "None" THEN "Ok"
        ELSE IF TokenAllowedResult(allowed) # "Ok" THEN TokenAllowedResult(allowed)
        ELSE IF required.status \in {"Err", "SendErr", "RecvErr"} THEN "Internal"
        ELSE IF FeeTooLow(BigDecimal(required.value, 0), BigDecimal(tx_fee_info.provided_fee, 0),
                          should_enforce_fee)
             THEN "TxAdd(TxFeeTooLow)"
        ELSE "Ok"

\* The requests the fee block sends to the ticker, with the answers. A
\* request whose send failed is not in the list.
SubmitTxTickerRequests(tx, allowed, required) ==
    (IF allowed.status \in {"NotAsked", "SendErr"} THEN <<>>
     ELSE << [request |-> "IsTokenAllowed", tx_type |-> "None",
              token |-> tx.token, answer |-> allowed] >>)
    \o
    (IF required.status \in {"NotAsked", "SendErr"} THEN <<>>
     ELSE << [request |-> "GetTxFee", tx_type |-> get_fee_info(tx).tx_type,
              token |-> tx.token, answer |-> required] >>)

\* Does the transaction need a signed message (Transfer and Withdraw do)?
NeedsMessage(tx) == tx.kind \in {"Transfer", "Withdraw"}

\* get_ethereum_sign_message(symbol, decimals): the message of a given
\* transaction differs by the token symbol and the decimals it is built with.
EthereumSignMessage(tx, symbol, decimals) == [symbol |-> symbol, decimals |-> decimals]

\* The None of an Option<Vec<u8>> message.
NoMessage == [symbol |-> "None", decimals |-> 0]

NoTx == [kind |-> "None", token |-> "None", fee |-> 0, fast |-> FALSE]

NoSignData == [signature |-> "None", message |-> NoMessage]

\* No SignedZkSyncTx (eth_sign_data = NoSignData in a SignedZkSyncTx is the
\* None of the Option).
NoSigned == [tx |-> NoTx, eth_sign_data |-> NoSignData]

\* Variant: a transaction whose message has no signature is sent to the
\* verifier without sign data.
verify_tx_info_message_signature_Unsigned(tx, signature, msg_to_sign, answer) ==
    LET eth_sign_data == IF msg_to_sign = NoMessage \/ signature = "None" THEN NoSignData
                         ELSE [signature |-> signature, message |-> msg_to_sign]
        signed == [tx |-> tx, eth_sign_data |-> eth_sign_data]
    IN  IF answer.status \in {"SendErr", "NotAsked"}
        THEN [result |-> "Internal", requests |-> <<>>, signed |-> NoSigned]
        ELSE [result |-> IF answer.status = "Ok" THEN "Ok"
                         ELSE IF answer.status = "RecvErr" THEN "Internal"
                         ELSE "TxAdd(IncorrectEthSignature)",
              requests |-> << [signed |-> signed, answer |-> answer] >>,
              signed |-> IF answer.status = "Ok" THEN signed ELSE NoSigned]

\* verify_tx_info_message_signature: the result, the SignedZkSyncTx built and
\* whether the request was sent to the verifier.
verify_tx_info_message_signature(tx, signature, msg_to_sign, answer) ==
    LET eth_sign_data == IF msg_to_sign = NoMessage THEN NoSignData
                         ELSE [signature |-> signature, message |-> msg_to_sign]
        signed == [tx |-> tx, eth_sign_data |-> eth_sign_data]
    IN  IF msg_to_sign # NoMessage /\ signature = "None"
        THEN [result |-> "TxAdd(MissingEthSignature)", requests |-> <<>>, signed |-> NoSigned]
        ELSE IF answer.status = "SendErr"
        THEN [result |-> "Internal", requests |-> <<>>, signed |-> NoSigned]
        ELSE [result |-> IF answer.status = "Ok" THEN "Ok"
                         ELSE IF answer.status = "RecvErr" THEN "Internal"
                         ELSE "TxAdd(IncorrectEthSignature)",
              requests |-> << [signed |-> signed, answer |-> answer] >>,
              signed |-> IF answer.status = "Ok" THEN signed ELSE NoSigned]

TokenResult(token_answer) ==
    IF token_answer.status = "Err" THEN "Internal"
    ELSE IF token_answer.status = "NotFound" THEN "Other(Token not found in the DB)"
    ELSE "Ok"

\* glm_tx_message_to_sign: the message of a Transfer or a Withdraw names the
\* symbol and the decimals of the token found; no other kind has a message.
glm_tx_message_to_sign(tx, token_answer) ==
    IF NeedsMessage(tx) THEN EthereumSignMessage(tx, tx.token, token_answer.value)
    ELSE NoMessage

\* glm_force_tx_message_to_sign: the same message with the symbol "tGLM".
glm_force_tx_message_to_sign(tx, decimals) ==
    IF NeedsMessage(tx) THEN EthereumSignMessage(tx, "tGLM", decimals) ELSE NoMessage

\* Variant: the retry is made whatever the symbol of the token.
glm_verify_tx_info_AnySymbol(tx, signature, token_answer, first_answer, retry_answer) ==
    IF NeedsMessage(tx)
    THEN IF TokenResult(token_answer) # "Ok"
         THEN [result |-> TokenResult(token_answer), requests |-> <<>>, signed |-> NoSigned]
         ELSE LET verify_result == verify_tx_info_message_signature(tx, signature,
                                       glm_tx_message_to_sign(tx, token_answer), first_answer)
                  retry == verify_tx_info_message_signature(tx, signature,
                               glm_force_tx_message_to_sign(tx, token_answer.value),
                               retry_answer)
              IN  IF verify_result.result = "Ok" THEN verify_result
                  ELSE [retry EXCEPT !.requests = verify_result.requests \o @]
    ELSE verify_tx_info_message_signature(tx, signature, NoMessage, first_answer)

glm_verify_tx_info(tx, signature, token_answer, first_answer, retry_answer) ==
    IF NeedsMessage(tx)
    THEN IF TokenResult(token_answer) # "Ok"
         THEN [result |-> TokenResult(token_answer), requests |-> <<>>, signed |-> NoSigned]
         ELSE LET verify_result == verify_tx_info_message_signature(tx, signature,
                                       glm_tx_message_to_sign(tx, token_answer), first_answer)
                  retry == verify_tx_info_message_signature(tx, signature,
                               glm_force_tx_message_to_sign(tx, token_answer.value),
                               retry_answer)
              IN  IF verify_result.result = "Ok" THEN verify_result
                  ELSE IF tx.token = "GNT"
                       THEN [retry EXCEPT !.requests = verify_result.requests \o @]
                       ELSE verify_result
    ELSE verify_tx_info_message_signature(tx, signature, NoMessage, first_answer)

\* Is the first (the retried) verification request handed to the channel?
FirstVerifySent(tx, signature, token_answer) ==
    IF NeedsMessage(tx) THEN token_answer.status = "Found" /\ signature # "None" ELSE TRUE

RetryVerifySent(tx, signature, token_answer, first_answer) ==
    /\ NeedsMessage(tx) /\ token_answer.status = "Found" /\ signature # "None"
    /\ first_answer.status # "Ok"
    /\ tx.token = "GNT"

\* core_api_client.send_tx(verified_tx)
SendTxResult(core_answer) ==
    IF core_answer.status = "Ok" THEN "Ok"
    ELSE IF core_answer.status = "CommErr" THEN "CommunicationCoreServer"
    ELSE "TxAdd(NonceMismatch)"

AnswersIf(asked, answers) == IF asked THEN answers ELSE {NotAsked}

NoSubmission ==
    [called |-> FALSE, tx |-> NoTx, signature |-> "None", fast_processing |-> "None",
     account_age |-> NotAsked, token |-> NotAsked, result |-> "None", ticker_requests |-> <<>>, verify_requests |-> <<>>,
     core_requests |-> <<>>]

submit_tx ==
    /\ ~submission.called
    /\ ~batch_submission.called
    /\ \E tx \in WellFormedTxs, signature \in Signatures, fast_processing \in FastProcessingParams :
       \E account_age \in AnswersIf(~is_close(tx) /\ tx.kind = "ForcedExit", AccountAnswers) :
       LET pre == SubmitTxPreChecks(tx_sender, tx, fast_processing, account_age)
       IN
       \E allowed \in AnswersIf(pre.result = "Ok", TokenAllowedAnswers) :
       \E required \in AnswersIf(allowed.status = "Allowed", TxFeeAnswers) :
       LET fee == IF pre.result # "Ok" THEN pre.result
                  ELSE SubmitTxFeeCheck(tx_sender, pre.tx, allowed, required)
       IN
       \E token_answer \in AnswersIf(fee = "Ok" /\ NeedsMessage(tx), TokenAnswers) :
       \E first_answer \in AnswersIf(fee = "Ok" /\ FirstVerifySent(tx, signature, token_answer),
                                     VerifyAnswers) :
       \E retry_answer \in AnswersIf(fee = "Ok" /\ RetryVerifySent(tx, signature, token_answer,
                                                                 first_answer),
                                     VerifyAnswers) :
       LET verified == IF fee # "Ok"
                       THEN [result |-> fee, requests |-> <<>>, signed |-> NoSigned]
                       ELSE glm_verify_tx_info(pre.tx, signature, token_answer,
                                               first_answer, retry_answer)
       IN
       \E core_answer \in AnswersIf(verified.result = "Ok", CoreAnswers) :
          submission' =
              [called |-> TRUE, tx |-> tx, signature |-> signature,
               fast_processing |-> fast_processing,
               account_age |-> account_age,
               token |-> token_answer,
               result |-> IF verified.result # "Ok" THEN verified.result
                          ELSE SendTxResult(core_answer),
               ticker_requests |-> SubmitTxTickerRequests(pre.tx, allowed, required),
               verify_requests |-> verified.requests,
               core_requests |-> IF verified.result = "Ok"
                                 THEN << [signed |-> verified.signed, answer |-> core_answer] >>
                                 ELSE <<>>]
    /\ UNCHANGED <<committerVars, fee_case, tx_sender, batchVars>>

\* The caller has the result; the next call may start.
submit_tx_returned ==
    /\ submission.called
    /\ submission' = NoSubmission
    /\ UNCHANGED <<committerVars, fee_case, tx_sender, batchVars>>

TxSenderWith(enforce_pubkey_change_fee) ==
    [enforce_pubkey_change_fee |-> enforce_pubkey_change_fee,
     forced_exit_minimum_account_age |-> MinAccountAge]

(***************************************************************************)
(* TxSender::submit_txs_batch                                              *)
(*                                                                         *)
(* One call is one action, as for submit_tx. The number of requests of a   *)
(* call depends on the batch, so each stage of the call is an operator     *)
(* that gives the set of its outcomes over the answers it may get.         *)
(***************************************************************************)
MaxBatch == 2           \* most transactions in a batch
MaxBatchFee == 1        \* largest fee a member of a batch declares

\* The kinds the members of a batch are drawn from: one that is signed with
\* a message, one that is not, and the account close.
BatchTxKinds == {"Transfer", "ChangePubKey", "Close"}

BatchTxs ==
    { tx \in WellFormedTxs :
        /\ tx.kind \in BatchTxKinds
        /\ tx.fee <= MaxBatchFee
        /\ is_close(tx) => (tx.token = "ETH" /\ tx.fee = 0) }

\* A member: the transaction and its own signature, if any.
BatchMembers == { [tx |-> tx, signature |-> signature] : tx \in BatchTxs, signature \in Signatures }

Batches == SeqsUpTo(BatchMembers, MaxBatch)

\* GetTokenPrice(USDForOneWei): the price in thousandths of a dollar, or a failure.
PriceUnits == {4, 1000}

Price(units) == BigDecimal(units, 3)

PriceAnswers == { Answer("Ok", units) : units \in PriceUnits } \cup Plain({"Err", "SendErr", "RecvErr"})

\* GetBatchTxFee: the required fee in ETH, or a failure.
BatchFeeAnswers ==
    { Answer("Ok", fee) : fee \in 0..(MaxBatchFee + 1) } \cup Plain({"Err", "SendErr", "RecvErr"})

\* The answers the collaborators may give during a call.
Environment(allowed, price, batch_fee, token, verify, core) ==
    [allowed |-> allowed, price |-> price, batch_fee |-> batch_fee,
     token |-> token, verify |-> verify, core |-> core]

\* Any answer of the ticker with a verifier, a token table and a core server
\* that work, and any answer of those with a ticker that works.
Environments ==
    { Environment(TokenAllowedAnswers, PriceAnswers, BatchFeeAnswers,
                  {Answer("Found", 18)}, Plain({"Ok"}), Plain({"Ok"})),
      Environment(Plain({"Allowed"}), {Answer("Ok", 1000)}, {Answer("Ok", 0), Answer("Ok", 1)},
                  TokenAnswers, VerifyAnswers, CoreAnswers) }

\* debug_assert!(txs.is_empty(), ..): where debug assertions are compiled in,
\* the call panics unless the batch is empty.
EmptinessGuard(txs) ==
    IF debug_assertions /\ ~(txs = <<>>) THEN "panic(Transaction batch cannot be empty)"
    ELSE "Ok"

\* Variant: the close check looks at the first member only.
AnyClose_First(txs) == txs # <<>> /\ is_close(txs[1].tx)

\* txs.iter().any(|tx| tx.0.is_close())
AnyClose(txs) == \E i \in DOMAIN txs : is_close(txs[i].tx)

\* A request as the ticker received it; one whose send failed is not received.
TickerLog(request, token, transactions, answer) ==
    IF answer.status = "SendErr" THEN <<>>
    ELSE << [request |-> request, token |-> token, transactions |-> transactions,
             answer |-> answer] >>

\* ticker_price_request and ticker_batch_fee_request: every failure is an
\* internal error.
TickerResult(answer) ==
    IF answer.status \in {"Err", "SendErr", "RecvErr"} THEN "Internal" ELSE "Ok"

\* The locals of the fee block: the result so far and what was accumulated.
FeeBlockStart ==
    [result |-> "Ok", provided_total_usd_fee |-> BigDecimal(0, 0),
     transaction_types |-> <<>>, ticker_requests |-> <<>>]

\* The body of the loop over the members for one member that declares a fee:
\* the outcomes over the answers of the ticker.
MemberFeeOutcomes(env, acc, tx_fee_info) ==
    UNION {
        LET asked == [acc EXCEPT !.ticker_requests =
                         @ \o TickerLog("IsTokenAllowed", tx_fee_info.token, <<>>, allowed)]
            fee_allowed == allowed.status = "Allowed"
            pushed == [asked EXCEPT !.transaction_types = Append(@, tx_fee_info.tx_type)]
            check_token == IF fee_allowed THEN tx_fee_info.token ELSE "ETH"
        IN  IF TokenAllowedResult(allowed) \in {"panic", "Internal"}
            THEN { [asked EXCEPT !.result = TokenAllowedResult(allowed)] }
            ELSE IF ~fee_allowed /\ tx_fee_info.provided_fee # 0
            THEN { [pushed EXCEPT !.result = "InappropriateFeeToken"] }
            ELSE { LET priced == [pushed EXCEPT !.ticker_requests =
                                     @ \o TickerLog("GetTokenPrice", check_token, <<>>, price)]
                   IN  IF TickerResult(price) # "Ok"
                       THEN [priced EXCEPT !.result = "Internal"]
                       ELSE [priced EXCEPT !.provided_total_usd_fee =
                                BdAdd(@, BdMul(BigDecimal(tx_fee_info.provided_fee, 0),
                                               Price(price.value)))]
                   : price \in env.price }
        : allowed \in env.allowed }

\* Variant: a member that declares no fee is checked like any other.
BatchMemberFee_ZeroChecked(env, acc, member) ==
    LET tx_fee_info == get_fee_info(member.tx)
    IN  IF tx_fee_info.tx_type = "None" THEN {acc}
        ELSE MemberFeeOutcomes(env, acc, tx_fee_info)

\* Variant: the type of a member that declares a fee of zero is still put
\* on the list of the batch fee request.
BatchMemberFee_ZeroPushed(env, acc, member) ==
    LET tx_fee_info == get_fee_info(member.tx)
    IN  IF tx_fee_info.tx_type = "None" THEN {acc}
        ELSE IF tx_fee_info.provided_fee = 0
        THEN { [acc EXCEPT !.transaction_types = Append(@, tx_fee_info.tx_type)] }
        ELSE MemberFeeOutcomes(env, acc, tx_fee_info)

\* One iteration of the loop: a member without fee information or with a
\* fee of zero is passed over.
BatchMemberFee(env, acc, member) ==
    LET tx_fee_info == get_fee_info(member.tx)
    IN  IF tx_fee_info.tx_type = "None" THEN {acc}
        ELSE IF tx_fee_info.provided_fee = 0 THEN {acc}
        ELSE MemberFeeOutcomes(env, acc, tx_fee_info)

\* The loop over the members from position i on.
RECURSIVE BatchFeeLoop(_, _, _, _)
BatchFeeLoop(env, txs, i, acc) ==
    IF i > Len(txs) \/ acc.result # "Ok" THEN {acc}
    ELSE UNION { BatchFeeLoop(env, txs, i + 1, next) : next \in BatchMemberFee(env, acc, txs[i]) }

\* Variant: the provided fee is compared as it is, without scaling it up.
BatchFeeTooLow_Unscaled(required_total_usd_fee, provided_total_usd_fee) ==
    BdGeq(required_total_usd_fee, provided_total_usd_fee)

\* required_total_usd_fee >= scale_user_fee_up(provided_total_usd_fee)
BatchFeeTooLow(required_total_usd_fee, provided_total_usd_fee) ==
    BdGeq(required_total_usd_fee, scale_user_fee_up(provided_total_usd_fee))

\* The required fee of the batch in ETH, the price of ETH and the comparison.
BatchFeeGate(env, acc) ==
    IF acc.result # "Ok" THEN {acc}
    ELSE UNION {
        LET asked == [acc EXCEPT !.ticker_requests =
                         @ \o TickerLog("GetBatchTxFee", "ETH", acc.transaction_types,
                                        required_eth_fee)]
        IN  IF TickerResult(required_eth_fee) # "Ok"
            THEN { [asked EXCEPT !.result = "Internal"] }
            ELSE { LET priced == [asked EXCEPT !.ticker_requests =
                                     @ \o TickerLog("GetTokenPrice", "ETH", <<>>, eth_price_in_usd)]
                       required_total_usd_fee ==
                           BdMul(BigDecimal(required_eth_fee.value, 0),
                                 Price(eth_price_in_usd.value))
                   IN  IF TickerResult(eth_price_in_usd) # "Ok"
                       THEN [priced EXCEPT !.result = "Internal"]
                       ELSE IF BatchFeeTooLow(required_total_usd_fee,
                                              priced.provided_total_usd_fee)
                       THEN [priced EXCEPT !.result = "TxAdd(TxBatchFeeTooLow)"]
                       ELSE priced
                   : eth_price_in_usd \in env.price }
        : required_eth_fee \in env.batch_fee }

\* The checks of submit_txs_batch up to the fee comparison.
BatchFeeBlock(env, txs) ==
    IF EmptinessGuard(txs) # "Ok" THEN { [FeeBlockStart EXCEPT !.result = EmptinessGuard(txs)] }
    ELSE IF AnyClose(txs) THEN { [FeeBlockStart EXCEPT !.result = "AccountCloseDisabled"] }
    ELSE UNION { BatchFeeGate(env, acc) : acc \in BatchFeeLoop(env, txs, 1, FeeBlockStart) }

\* No token found yet (the None of batch_token).
NoToken == [symbol |-> "None", decimals |-> 0]

NoBatchSignData == [signature |-> "None", message |-> <<>>]

\* A request as the verifier received it: TxVariant::Tx with one transaction
\* or TxVariant::Batch with the transactions and the sign data of the batch.
VerifyLog(variant, txs, batch_sign_data, answer) ==
    [variant |-> variant, txs |-> txs, batch_sign_data |-> batch_sign_data, answer |-> answer]

\* The outcome of a verification stage: the result, the requests the
\* verifier received, the transactions verified and the signature of the batch.
Verification(result, requests, verified, signature) ==
    [result |-> result, requests |-> requests, verified |-> verified, signature |-> signature]

\* glm_txs_batch_message_to_sign from position i on: the messages of the
\* members in order and the first token found.
RECURSIVE glm_txs_batch_message_to_sign(_, _, _, _)
glm_txs_batch_message_to_sign(env, txs, i, acc) ==
    IF i > Len(txs) \/ acc.result # "Ok" THEN {acc}
    ELSE IF ~NeedsMessage(txs[i].tx)
    THEN glm_txs_batch_message_to_sign(env, txs, i + 1,
             [acc EXCEPT !.messages_to_sign = Append(@, NoMessage)])
    ELSE UNION {
        IF TokenResult(token_answer) # "Ok"
        THEN { [acc EXCEPT !.result = TokenResult(token_answer)] }
        ELSE glm_txs_batch_message_to_sign(env, txs, i + 1,
                 [acc EXCEPT
                    !.batch_token = IF @ = NoToken
                                    THEN [symbol |-> txs[i].tx.token,
                                          decimals |-> token_answer.value]
                                    ELSE @,
                    !.messages_to_sign =
                        Append(@, glm_tx_message_to_sign(txs[i].tx, token_answer))])
        : token_answer \in env.token }

\* glm_force_txs_batch_message_to_sign
glm_force_txs_batch_message_to_sign(txs, decimals) ==
    [i \in DOMAIN txs |-> glm_force_tx_message_to_sign(txs[i].tx, decimals)]

\* tx.get_bytes(): the encoding of a transaction, one symbol that stands for
\* its bytes.
get_bytes(tx) == << tx >>

\* tiny_keccak::keccak256: the digest stands for the bytes it was taken of.
keccak256(bytes) == [keccak256 |-> bytes]

\* tx.hash(): the digest of the encoding of the transaction.
hash(tx) == [sha256 |-> get_bytes(tx)]

\* txs.flat_map(|tx| tx.get_bytes()) from position i on.
RECURSIVE FlatMapGetBytes(_, _)
FlatMapGetBytes(txs, i) ==
    IF i > Len(txs) THEN <<>> ELSE get_bytes(txs[i]) \o FlatMapGetBytes(txs, i + 1)

\* Variant: the encodings are concatenated from the last member to the first.
get_batch_sign_message_Reversed(txs) ==
    keccak256(FlatMapGetBytes([i \in DOMAIN txs |-> txs[Len(txs) + 1 - i]], 1))

\* get_batch_sign_message: the digest of the encodings of the transactions
\* concatenated in order.
get_batch_sign_message(txs) == keccak256(FlatMapGetBytes(txs, 1))

\* verify_txs_batch_signature
verify_txs_batch_signature(batch, signature, msgs_to_sign, answer) ==
    LET txs == [i \in DOMAIN batch |->
                   [tx |-> batch[i].tx,
                    eth_sign_data |->
                        IF batch[i].signature # "None" /\ msgs_to_sign[i] # NoMessage
                        THEN [signature |-> batch[i].signature, message |-> msgs_to_sign[i]]
                        ELSE NoSignData]]
        message == get_batch_sign_message([i \in DOMAIN txs |-> txs[i].tx])
        eth_sign_data == [signature |-> signature, message |-> message]
    IN  IF answer.status = "SendErr" THEN Verification("Internal", <<>>, <<>>, "None")
        ELSE Verification(IF answer.status = "Ok" THEN "Ok"
                          ELSE IF answer.status = "RecvErr" THEN "Internal"
                          ELSE "TxAdd(IncorrectEthSignature)",
                          << VerifyLog("Batch", txs, eth_sign_data, answer) >>,
                          IF answer.status = "Ok" THEN txs ELSE <<>>,
                          IF answer.status = "Ok" THEN signature ELSE "None")

\* glm_verify_txs_batch_info: the outcomes over the answers of the token
\* table and of the verifier.
glm_verify_txs_batch_info(env, batch, signature) ==
    UNION {
        IF to_sign.result # "Ok"
        THEN { Verification(to_sign.result, <<>>, <<>>, "None") }
        ELSE UNION {
            LET verify_result == verify_txs_batch_signature(batch, signature,
                                     to_sign.messages_to_sign, first_answer)
            IN  IF verify_result.result = "Ok" THEN { verify_result }
                ELSE IF to_sign.batch_token.symbol = "GNT"
                THEN { LET retry == verify_txs_batch_signature(batch, signature,
                                        glm_force_txs_batch_message_to_sign(batch,
                                            to_sign.batch_token.decimals),
                                        retry_answer)
                       IN  [retry EXCEPT !.requests = verify_result.requests \o @]
                       : retry_answer \in env.verify }
                ELSE { verify_result }
            : first_answer \in env.verify }
        : to_sign \in glm_txs_batch_message_to_sign(env, batch, 1,
                          [result |-> "Ok", batch_token |-> NoToken, messages_to_sign |-> <<>>]) }

\* glm_verify_tx_info on one member: the outcomes over the answers.
VerifyMemberOutcomes(env, member) ==
    UNION { UNION { {
        LET verified == glm_verify_tx_info(member.tx, member.signature, token_answer,
                                           first_answer, retry_answer)
        IN  Verification(verified.result,
                         [i \in DOMAIN verified.requests |->
                             VerifyLog("Tx", << verified.requests[i].signed >>, NoBatchSignData,
                                       verified.requests[i].answer)],
                         IF verified.result = "Ok" THEN << verified.signed >> ELSE <<>>,
                         "None")
        : retry_answer \in AnswersIf(RetryVerifySent(member.tx, member.signature, token_answer,
                                                   first_answer), env.verify) }
        : first_answer \in AnswersIf(FirstVerifySent(member.tx, member.signature, token_answer),
                                   env.verify) }
        : token_answer \in AnswersIf(NeedsMessage(member.tx), env.token) }

\* Variant: the loop goes on to the next member after a failed verification
\* and returns the first error at the end.
RECURSIVE VerifyEachMember_KeepGoing(_, _, _, _)
VerifyEachMember_KeepGoing(env, txs, i, acc) ==
    IF i > Len(txs) THEN {acc}
    ELSE UNION {
        VerifyEachMember_KeepGoing(env, txs, i + 1,
            Verification(IF acc.result # "Ok" THEN acc.result ELSE verified_tx.result,
                         acc.requests \o verified_tx.requests,
                         IF acc.result = "Ok" /\ verified_tx.result = "Ok"
                         THEN acc.verified \o verified_tx.verified ELSE <<>>,
                         "None"))
        : verified_tx \in VerifyMemberOutcomes(env, txs[i]) }

\* for (tx, signature) in txs { glm_verify_tx_info(..)? } from position i on.
RECURSIVE VerifyEachMember(_, _, _, _)
VerifyEachMember(env, txs, i, acc) ==
    IF i > Len(txs) \/ acc.result # "Ok" THEN {acc}
    ELSE UNION {
        VerifyEachMember(env, txs, i + 1,
            Verification(verified_tx.result, acc.requests \o verified_tx.requests,
                         IF verified_tx.result = "Ok"
                         THEN acc.verified \o verified_tx.verified ELSE <<>>,
                         "None"))
        : verified_tx \in VerifyMemberOutcomes(env, txs[i]) }

\* The verification stage of submit_txs_batch.
BatchVerification(env, txs, eth_signature) ==
    IF eth_signature # "None" THEN glm_verify_txs_batch_info(env, txs, eth_signature)
    ELSE VerifyEachMember(env, txs, 1, Verification("Ok", <<>>, <<>>, "None"))

NoBatchSubmission ==
    [called |-> FALSE, txs |-> <<>>, eth_signature |-> "None", result |-> "None",
     ticker_requests |-> <<>>, verify_requests |-> <<>>, core_requests |-> <<>>,
     tx_hashes |-> <<>>]

submit_txs_batch ==
    /\ ~submission.called
    /\ ~batch_submission.called
    /\ \E txs \in Batches, eth_signature \in Signatures, env \in Environments :
       \E fee \in BatchFeeBlock(env, txs) :
       \E verified \in IF fee.result # "Ok" THEN { Verification(fee.result, <<>>, <<>>, "None") }
                       ELSE BatchVerification(env, txs, eth_signature) :
       \E core_answer \in AnswersIf(verified.result = "Ok", env.core) :
          batch_submission' =
              [called |-> TRUE, txs |-> txs, eth_signature |-> eth_signature,
               result |-> IF verified.result # "Ok" THEN verified.result
                          ELSE SendTxResult(core_answer),
               ticker_requests |-> fee.ticker_requests,
               verify_requests |-> verified.requests,
               core_requests |-> IF verified.result = "Ok"
                                 THEN << [txs |-> verified.verified,
                                          signature |-> verified.signature,
                                          answer |-> core_answer] >>
                                 ELSE <<>>,
               tx_hashes |-> IF verified.result = "Ok" /\ core_answer.status = "Ok"
                             THEN [i \in DOMAIN verified.verified |-> hash(verified.verified[i].tx)]
                             ELSE <<>>]
    /\ UNCHANGED <<committerVars, fee_case, tx_sender, submission, debug_assertions>>

\* The caller has the result; the next call may start.
submit_txs_batch_returned ==
    /\ batch_submission.called
    /\ batch_submission' = NoBatchSubmission
    /\ UNCHANGED <<committerVars, fee_case, tx_sender, submission, debug_assertions>>

SenderInit ==
    /\ FeeInit
    /\ tx_sender = TxSenderWith(FALSE)
    /\ submission = NoSubmission
    /\ batch_submission = NoBatchSubmission
    /\ debug_assertions = FALSE

(***************************************************************************)
(* main: the stop signal.                                                  *)
(***************************************************************************)
\* A task dropped by the runtime at the await it is suspended on: its
\* locals are dropped, and with the transaction handle every write made
\* through it.
Dropped(task) ==
    IF task.state = "running"
    THEN [task EXCEPT !.state = "stopped", !.pc = "stopped", !.result = "Ok",
                      !.transaction = NoTransaction]
    ELSE task

\* stop_signal_receiver.next() resolves in the select! of main: a warning is
\* logged and main returns Ok(()). Neither task of run_committer takes part
\* in the select! or holds a receiver of the signal; both are dropped with
\* the runtime, where they are, and the queue with them.
stop_signal ==
    /\ committer.state = "running" \/ poller.state = "running"
    /\ committer' = [Dropped(committer) EXCEPT !.request = NoRequest, !.exec_op = 0]
    /\ poller' = [Dropped(poller) EXCEPT !.last_verified_block = 0, !.proof = "None"]
    /\ rx_for_ops' = <<>>
    /\ UNCHANGED <<builder, storage, committed_requests, mempool, metrics,
                   tick_target, senderVars>>

(***************************************************************************)
(* The committer: both tasks and their environment.                        *)
(***************************************************************************)
CommitterNext ==
    \/ SendPendingBlock
    \/ SendBlock
    \/ StoreProof
    \/ handle_new_commit_task
    \/ save_pending_block_access_storage
    \/ save_pending_block_start_transaction
    \/ save_pending_block_save
    \/ save_pending_block_commit_state_update
    \/ save_pending_block_commit
    \/ commit_block_access_storage
    \/ commit_block_start_transaction
    \/ commit_block_add_pending_withdrawal
    \/ commit_block_commit_state_update
    \/ commit_block_execute_operation
    \/ commit_block_send
    \/ commit_block_commit
    \/ poll_get_last_verified_block
    \/ poll_tick
    \/ poll_access_storage
    \/ poll_load_proof
    \/ poll_start_transaction
    \/ poll_load_committed_block
    \/ poll_execute_operation
    \/ poll_commit

Init == CommitterInit /\ SenderInit

Next == CommitterNext

Spec == Init /\ [][Next]_vars

(***************************************************************************)
(* The server: the committer in a process that a stop signal may end.      *)
(***************************************************************************)
ServerNext ==
    \/ CommitterNext
    \/ stop_signal

ServerSpec == Init /\ [][ServerNext]_vars

(***************************************************************************)
(* The committer under fair scheduling: the runtime lets a task that can   *)
(* take a step take it, and the timer of the polling task ticks.           *)
(***************************************************************************)
LiveRequests == 2       \* CommitRequests the block builder sends under fair scheduling

LiveSendPendingBlock ==
    /\ Len(builder.sent) < LiveRequests
    /\ SendPendingBlock

LiveSendBlock ==
    /\ Len(builder.sent) < LiveRequests
    /\ SendBlock

\* The prover stores the proof of a block that is committed: a proof is
\* made for a committed block.
LiveStoreProof ==
    /\ StoreProof
    /\ storage'.proofs \subseteq CommittedBlocks(storage)

LiveNext ==
    \/ LiveSendPendingBlock
    \/ LiveSendBlock
    \/ LiveStoreProof
    \/ handle_new_commit_task
    \/ save_pending_block_access_storage
    \/ save_pending_block_start_transaction
    \/ save_pending_block_save
    \/ save_pending_block_commit_state_update
    \/ save_pending_block_commit
    \/ commit_block_access_storage
    \/ commit_block_start_transaction
    \/ commit_block_add_pending_withdrawal
    \/ commit_block_commit_state_update
    \/ commit_block_execute_operation
    \/ commit_block_send
    \/ commit_block_commit
    \/ poll_get_last_verified_block
    \/ poll_tick
    \/ poll_access_storage
    \/ poll_load_proof
    \/ poll_start_transaction
    \/ poll_load_committed_block
    \/ poll_execute_operation
    \/ poll_commit

\* The steps of poll_for_new_proofs_task.
PollerNext ==
    \/ poll_get_last_verified_block
    \/ poll_tick
    \/ poll_access_storage
    \/ poll_load_proof
    \/ poll_start_transaction
    \/ poll_load_committed_block
    \/ poll_execute_operation
    \/ poll_commit

LiveSpec == Init /\ [][LiveNext]_vars /\ WF_vars(PollerNext)

(***************************************************************************)
(* scale_user_fee_up applied to the fees of a bounded set.                 *)
(***************************************************************************)
FeeNext ==
    \/ ProvideFee
    \/ ScaleUserFeeUp

FeeSpec == Init /\ [][FeeNext]_vars

(***************************************************************************)
(* The admission pipeline: calls of submit_tx on a TxSender built with     *)
(* either value of enforce_pubkey_change_fee.                              *)
(***************************************************************************)
SenderSpecInit ==
    /\ CommitterInit
    /\ FeeInit
    /\ \E enforce \in BOOLEAN : tx_sender = TxSenderWith(enforce)
    /\ submission = NoSubmission
    /\ batch_submission = NoBatchSubmission
    /\ debug_assertions \in BOOLEAN

SenderNext ==
    \/ submit_tx
    \/ submit_tx_returned
    \/ submit_txs_batch
    \/ submit_txs_batch_returned

SenderSpec == SenderSpecInit /\ [][SenderNext]_vars

(***************************************************************************)
(* Properties of the committer.                                            *)
(***************************************************************************)
Range(f) == { f[i] : i \in DOMAIN f }

\* The Verify operations of storage in the order of their insertion.
VerifyOrder == SelectSeq(storage.operations, LAMBDA op : op.action = "Verify")

BlockHeaders == { h \in Range(builder.sent) : h.type = "Block" }

PendingBlockHeaders == { h \in Range(builder.sent) : h.type = "PendingBlock" }

Notified(n) == \E i \in DOMAIN mempool : mempool[i].block = n

MetricRecorded(n) == \E i \in DOMAIN metrics : metrics[i].block = n

\* C1: proof application is sequential and gapless: the i-th Verify
\* operation ever appended is the one of block i, so block N is verified only
\* after all the blocks before it, and a verified block has the proofs of
\* itself and of every block before it: a block behind a missing proof is
\* never verified, whatever the number of timer ticks.
C1_SequentialGapless ==
    /\ \A i \in 1..Len(VerifyOrder) : VerifyOrder[i].block = i
    /\ \A n \in VerifiedBlocks(storage) : \A m \in 1..n : m \in storage.proofs

\* The proofs of the blocks L+1 and L+3 are present, the one of L+2 is not:
\* L+1 is verified, the loop has gone back to wait for the timer and L+3 is
\* not verified.
C1_Witness ==
    /\ PollerAt("tick")
    /\ poller.last_verified_block = InitVerified + 1
    /\ InitVerified + 1 \in VerifiedBlocks(storage)
    /\ InitVerified + 2 \notin storage.proofs
    /\ InitVerified + 3 \in storage.proofs
    /\ InitVerified + 3 \notin VerifiedBlocks(storage)

\* C2: in every interleaving of the two tasks a block that has a Verify
\* operation in storage has a Commit operation in storage.
C2_VerifiedOnlyIfCommitted ==
    VerifiedBlocks(storage) \subseteq CommittedBlocks(storage)

\* A block was verified, then a proof was found for a block that is not
\* committed: the task panicked on load_committed_block and wrote no Verify.
C2_Witness ==
    /\ poller.state = "panicked"
    /\ poller.result = "Ok"
    /\ InitVerified + 1 \in VerifiedBlocks(storage)
    /\ \E n \in storage.proofs : n \notin CommittedBlocks(storage)

\* The storage effects of a Block request.
CommitVisible(h) == h.number \in CommittedBlocks(storage)

WithdrawalsVisible(h) == h.withdrawals \subseteq storage.pending_withdrawals

NoWithdrawalVisible(h) == h.withdrawals \cap storage.pending_withdrawals = {}

UpdatesVisible(h) == h.updates \subseteq storage.account_updates

NoUpdateVisible(h) == h.updates \cap storage.account_updates = {}

\* The handling of the request is over: its transaction committed, or the
\* task panicked.
HandlingOver(h) == h.id \in Range(committed_requests) \/ committer.state = "panicked"

\* C3 as claimed: once the handling of a Block request is over, its five
\* effects (pending withdrawals, priority-op counter, account-state deltas,
\* Commit operation, mempool notification) are all visible or none is.
C3_AllFiveOrNone ==
    \A h \in BlockHeaders :
        HandlingOver(h) =>
            \/ /\ WithdrawalsVisible(h) /\ UpdatesVisible(h) /\ CommitVisible(h)
               /\ MetricRecorded(h.number) /\ Notified(h.number)
            \/ /\ NoWithdrawalVisible(h) /\ NoUpdateVisible(h) /\ ~CommitVisible(h)
               /\ ~MetricRecorded(h.number) /\ ~Notified(h.number)

\* C3 amended: at every moment the three storage effects of a Block request
\* (pending withdrawals, account-state deltas, Commit operation) are all
\* visible in storage or none is.
C3_StorageEffectsAtomic ==
    \A h \in BlockHeaders :
        \/ WithdrawalsVisible(h) /\ UpdatesVisible(h) /\ CommitVisible(h)
        \/ NoWithdrawalVisible(h) /\ NoUpdateVisible(h) /\ ~CommitVisible(h)

\* A storage call failed after the pending withdrawal of a block was written
\* through the transaction: nothing of the block is in storage.
C3_Witness ==
    /\ committer.state = "panicked"
    /\ committer.pc \in {"commit_block.commit_state_update", "commit_block.execute_operation",
                         "commit_block.commit"}
    /\ \E h \in BlockHeaders :
          /\ h.withdrawals # {}
          /\ MetricRecorded(h.number)
          /\ NoWithdrawalVisible(h) /\ NoUpdateVisible(h) /\ ~CommitVisible(h)

\* C4: the pending block of a PendingBlock request and its account-state
\* deltas are visible in storage together or not at all.
PendingBlockVisible(h) == [number |-> h.number, id |-> h.id] \in storage.pending_blocks

C4_PendingBlockAtomic ==
    \A h \in PendingBlockHeaders :
        \/ PendingBlockVisible(h) /\ UpdatesVisible(h)
        \/ ~PendingBlockVisible(h) /\ NoUpdateVisible(h)

\* A storage call failed after the pending block was written through the
\* transaction: neither write is in storage.
C4_Witness ==
    /\ committer.state = "panicked"
    /\ committer.pc \in {"save_pending_block.commit_state_update", "save_pending_block.commit"}
    /\ \E h \in PendingBlockHeaders : ~PendingBlockVisible(h) /\ NoUpdateVisible(h)

\* C5: the transactions of the requests commit in arrival order, and the
\* request being handled is the one after the last committed request: no
\* request is taken before the transaction of the previous one committed.
C5_ArrivalOrder ==
    /\ \A i \in 1..Len(committed_requests) : committed_requests[i] = i
    /\ committer.request # NoRequest => committer.request.id = Len(committed_requests) + 1
    /\ committer.transaction.open => committer.request # NoRequest

\* Two requests were queued together and both committed.
C5_Witness == Len(committed_requests) >= 2

\* C6 as claimed: when the loop goes back to wait for the timer, every block
\* of the run of proven, committed blocks that was present at the tick is
\* verified.
C6_CatchUpWithinTick ==
    PollerAt("tick") => poller.last_verified_block >= tick_target

\* C7 as claimed: a task whose last storage call failed has panicked.
C7_StorageFailureFatal ==
    /\ committer.result = "Err" => committer.state = "panicked"
    /\ poller.result = "Err" => poller.state = "panicked"

\* C8: whatever the outcome of the send of UpdateNonces, the task goes on to
\* commit the same transaction of the same request.
C8_NotifyFailureNotFatal ==
    [][CommitterAt("commit_block.send") /\ committer' # committer =>
          /\ committer'.state = "running"
          /\ committer'.pc = "commit_block.commit"
          /\ committer'.transaction = committer.transaction
          /\ committer'.request = committer.request]_vars

\* A block is committed with its withdrawals and deltas, the mempool was not
\* notified of it, and the request after it committed too.
C8_Witness ==
    \E h \in BlockHeaders :
        /\ CommitVisible(h) /\ WithdrawalsVisible(h) /\ UpdatesVisible(h)
        /\ h.withdrawals # {}
        /\ ~Notified(h.number)
        /\ h.id < Len(committed_requests)

(***************************************************************************)
(* Properties of scale_user_fee_up.                                        *)
(***************************************************************************)
Greater(a, b) == IF a >= b THEN a ELSE b

\* C9: scale_user_fee_up is exact: for d = n / 10^s below one cent the value
\* returned is 2 * d, otherwise it is the greater of 1.05 * d and d + 0.01
\* (compared as fractions, without rounding); 0.005 gives 0.01, 0.015 gives
\* 0.025 and 0.30 gives 0.315.
C9_ScaleExact ==
    fee_case.returned =>
        LET n == fee_case.provided.int_val
            d == Pow10(fee_case.provided.scale)
            m == fee_case.scaled.int_val
            e == Pow10(fee_case.scaled.scale)
        IN  /\ fee_case.scaled.scale >= 0
            /\ 100 * n < d => m * d = 2 * n * e
            /\ 100 * n >= d => 100 * m * d = Greater(105 * n, 100 * n + d) * e
            /\ (100 * n >= d /\ 5 * n <= d) => 100 * m * d = (100 * n + d) * e
            /\ 5 * n > d => 100 * m * d = 105 * n * e
            /\ fee_case.provided = BigDecimal(5, 3) => BdEq(fee_case.scaled, BigDecimal(1, 2))
            /\ fee_case.provided = BigDecimal(15, 3) => BdEq(fee_case.scaled, BigDecimal(25, 3))
            /\ fee_case.provided = BigDecimal(30, 2) => BdEq(fee_case.scaled, BigDecimal(315, 3))

\* The function returned for 0.015, a fee between one cent and 0.2.
C9_Witness ==
    /\ fee_case.returned
    /\ fee_case.provided = BigDecimal(15, 3)
    /\ fee_case.scaled.int_val # 0

(***************************************************************************)
(* Properties of submit_tx.                                                *)
(***************************************************************************)
\* The answers the ticker gave to the requests of the call.
TickerAnswers(request) ==
    { submission.ticker_requests[i].answer :
        i \in { j \in DOMAIN submission.ticker_requests :
                  submission.ticker_requests[j].request = request } }

RequiredFees == { a.value : a \in { b \in TickerAnswers("GetTxFee") : b.status = "Ok" } }

\* required >= scale_user_fee_up(declared) for integer fees: the scaled fee
\* of 0 is 0, the one of a fee of at least 1 is 1.05 times the fee.
Insufficient(required, declared) ==
    IF declared = 0 THEN TRUE ELSE 100 * required >= 105 * declared

EnforcementSkipped ==
    submission.tx.kind = "ChangePubKey" /\ ~tx_sender.enforce_pubkey_change_fee

\* C10: a call of submit_tx that got the required fee from the ticker
\* returns TxFeeTooLow exactly when the required fee is at least the scaled
\* declared fee and enforcement is not skipped (it is skipped for a
\* ChangePubKey while enforce_pubkey_change_fee is off); a call that got no
\* required fee never returns TxFeeTooLow.
C10_FeeTooLowExactly ==
    submission.called =>
        /\ \A required \in RequiredFees :
              submission.result = "TxAdd(TxFeeTooLow)"
                  <=> (Insufficient(required, submission.tx.fee) /\ ~EnforcementSkipped)
        /\ RequiredFees = {} => submission.result # "TxAdd(TxFeeTooLow)"

\* A Transfer that declares fee 2 is rejected for a required fee of 3, which
\* is above the scaled fee 2.1.
C10_Witness ==
    /\ submission.called
    /\ submission.tx.kind = "Transfer"
    /\ submission.tx.fee = 2
    /\ RequiredFees = {3}
    /\ submission.result = "TxAdd(TxFeeTooLow)"

\* A ChangePubKey with an insufficient fee is accepted while
\* enforce_pubkey_change_fee is off.
C10_WitnessSkipped ==
    /\ submission.called
    /\ EnforcementSkipped
    /\ \E required \in RequiredFees : Insufficient(required, submission.tx.fee)
    /\ submission.result = "Ok"

\* The requests of the call that reached the ticker, by kind.
TickerRequested(request) ==
    { i \in DOMAIN submission.ticker_requests : submission.ticker_requests[i].request = request }

NothingSentBySubmitTx ==
    /\ submission.ticker_requests = <<>>
    /\ submission.verify_requests = <<>>
    /\ submission.core_requests = <<>>

\* C11: a call of submit_tx whose IsTokenAllowed query is answered "not
\* allowed" returns InappropriateFeeToken, whatever the kind of the
\* transaction (a ChangePubKey whose fee is not enforced included), and makes
\* no GetTxFee query, no verification request and no send to the core server.
C11_TokenNotAllowed ==
    (submission.called /\ Answer("NotAllowed", 0) \in TickerAnswers("IsTokenAllowed")) =>
        /\ submission.result = "InappropriateFeeToken"
        /\ TickerRequested("GetTxFee") = {}
        /\ submission.verify_requests = <<>>
        /\ submission.core_requests = <<>>

\* A ChangePubKey whose fee is not enforced is rejected for its token.
C11_Witness ==
    /\ submission.called
    /\ EnforcementSkipped
    /\ Answer("NotAllowed", 0) \in TickerAnswers("IsTokenAllowed")
    /\ submission.result = "InappropriateFeeToken"

InvalidParamsErrors ==
    {"InvalidParams(Target account does not exist)",
     "InvalidParams(Target account exists less than required minimum amount)"}

\* C12: a ForcedExit is rejected with InvalidParams when the target account
\* does not exist or is younger than the minimum age; an account of exactly
\* the minimum age or older passes the check (the call goes on to the fast
\* processing check and the ticker).
C12_ForcedExitAge ==
    (submission.called /\ submission.tx.kind = "ForcedExit") =>
        LET age == submission.account_age
            minimum == tx_sender.forced_exit_minimum_account_age
        IN  /\ age.status = "None" =>
                  submission.result = "InvalidParams(Target account does not exist)"
            /\ (age.status = "Some" /\ age.value < minimum) =>
                  submission.result =
                      "InvalidParams(Target account exists less than required minimum amount)"
            /\ (age.status = "Some" /\ age.value >= minimum) =>
                  /\ submission.result \notin InvalidParamsErrors
                  /\ IF submission.fast_processing = "true"
                     THEN submission.result = "UnsupportedFastProcessing"
                     ELSE TickerAnswers("IsTokenAllowed") # {}
                          \/ submission.result = "panic"

\* A ForcedExit against an account of exactly the minimum age is accepted.
C12_Witness ==
    /\ submission.called
    /\ submission.tx.kind = "ForcedExit"
    /\ submission.account_age = Answer("Some", tx_sender.forced_exit_minimum_account_age)
    /\ submission.result = "Ok"

\* A ForcedExit against an account one time unit younger is rejected.
C12_WitnessYoung ==
    /\ submission.called
    /\ submission.tx.kind = "ForcedExit"
    /\ submission.account_age = Answer("Some", tx_sender.forced_exit_minimum_account_age - 1)
    /\ submission.result \in InvalidParamsErrors

\* C13: fast_processing = true on a transaction that is not a Withdraw, and
\* a Withdraw that comes with its fast flag set (whatever the parameter), are
\* rejected, and nothing is sent to the ticker, the verifier or the core
\* server.
C13_FastProcessingRejected ==
    submission.called =>
        /\ (submission.fast_processing = "true" /\ submission.tx.kind # "Withdraw") =>
              /\ submission.result # "Ok"
              /\ NothingSentBySubmitTx
              /\ submission.tx.kind \notin {"Close", "ForcedExit"} =>
                    submission.result = "UnsupportedFastProcessing"
        /\ (submission.tx.kind = "Withdraw" /\ submission.tx.fast) =>
              /\ submission.result = "IncorrectTx"
              /\ NothingSentBySubmitTx

\* A Withdraw sent with fast = true is rejected although the parameter is false.
C13_Witness ==
    /\ submission.called
    /\ submission.tx.kind = "Withdraw"
    /\ submission.tx.fast
    /\ submission.fast_processing = "false"
    /\ submission.result = "IncorrectTx"

\* C14: every Withdraw that submit_tx sends to the core server has its fast
\* flag equal to the fast_processing parameter, false when there is none.
C14_FastFromParameter ==
    submission.called =>
        \A i \in DOMAIN submission.core_requests :
            LET forwarded == submission.core_requests[i].signed.tx
            IN  forwarded.kind = "Withdraw" =>
                    /\ forwarded.fast = (submission.fast_processing = "true")
                    /\ ~submission.tx.fast

\* A Withdraw is forwarded as a fast one for fast_processing = true.
C14_Witness ==
    /\ submission.called
    /\ submission.tx.kind = "Withdraw"
    /\ submission.fast_processing = "true"
    /\ submission.result = "Ok"
    /\ Len(submission.core_requests) = 1
    /\ submission.core_requests[1].signed.tx.fast

\* The error a caller gets for a request the verifier received and did not
\* answer with Ok.
VerifyError(answer) ==
    IF answer.status = "RecvErr" THEN "Internal" ELSE "TxAdd(IncorrectEthSignature)"

\* C15: when the first verification and the retry with the legacy message
\* both fail, the call returns the error of the first verification (for a
\* single transaction and for a batch with an aggregate signature).
C15_OriginalErrorReturned ==
    /\ (/\ submission.called
        /\ Len(submission.verify_requests) = 2
        /\ submission.verify_requests[2].answer.status # "Ok") =>
            submission.result = VerifyError(submission.verify_requests[1].answer)
    /\ (/\ batch_submission.called
        /\ batch_submission.eth_signature # "None"
        /\ Len(batch_submission.verify_requests) = 2
        /\ batch_submission.verify_requests[2].answer.status # "Ok") =>
            batch_submission.result = VerifyError(batch_submission.verify_requests[1].answer)

\* C16: submit_tx sends at most one verification request for a token whose
\* symbol is not GNT (a rejection by the verifier is returned after that one
\* request) and at most two for GNT; a second request is sent only after the
\* first one failed, and its message names the symbol tGLM and the decimals
\* of the token.
C16_LegacyFallbackOnce ==
    submission.called =>
        LET requests == submission.verify_requests
        IN  /\ Len(requests) <= 2
            /\ submission.tx.token # "GNT" => Len(requests) <= 1
            /\ (submission.tx.token # "GNT" /\ Len(requests) = 1
                  /\ requests[1].answer.status # "Ok") =>
                  submission.result = VerifyError(requests[1].answer)
            /\ (Len(requests) >= 1 /\ requests[1].answer.status = "Ok") => Len(requests) = 1
            /\ Len(requests) = 2 =>
                  /\ submission.tx.token = "GNT"
                  /\ requests[1].answer.status # "Ok"
                  /\ requests[1].signed.eth_sign_data.message =
                        [symbol |-> "GNT", decimals |-> submission.token.value]
                  /\ requests[2].signed.eth_sign_data.message =
                        [symbol |-> "tGLM", decimals |-> submission.token.value]
                  /\ requests[2].signed.tx = requests[1].signed.tx

\* A transfer of GNT is accepted on the retry with the legacy message.
C16_Witness ==
    /\ submission.called
    /\ submission.tx.token = "GNT"
    /\ Len(submission.verify_requests) = 2
    /\ submission.verify_requests[1].answer.status = "IncorrectEthSignature"
    /\ submission.verify_requests[2].answer.status = "Ok"
    /\ submission.verify_requests[2].signed.eth_sign_data.message.decimals = 6
    /\ submission.result = "Ok"

\* A transfer of ETH is rejected after one request.
C16_WitnessOther ==
    /\ submission.called
    /\ submission.tx.token = "ETH"
    /\ Len(submission.verify_requests) = 1
    /\ submission.result = "TxAdd(IncorrectEthSignature)"

(***************************************************************************)
(* Properties of submit_txs_batch.                                         *)
(***************************************************************************)
\* The positions of the members that need a signed message for a GNT token.
DeprecatedTokenMembers ==
    { i \in DOMAIN batch_submission.txs :
        NeedsMessage(batch_submission.txs[i].tx) /\ batch_submission.txs[i].tx.token = "GNT" }

\* Did the verifier receive and reject the first verification request of the
\* batch, the one whose messages name the symbols of the tokens? (The
\* message of a member is in the request when the member has a signature.)
FirstBatchVerificationRejected ==
    /\ Len(batch_submission.verify_requests) >= 1
    /\ batch_submission.verify_requests[1].answer.status = "IncorrectEthSignature"
    /\ \E i \in DeprecatedTokenMembers :
          batch_submission.verify_requests[1].txs[i].eth_sign_data.message.symbol = "GNT"

\* C17: in a batch with an aggregate signature whose verification is
\* rejected, the retry with the legacy messages is made whenever some member,
\* at any position, has the token GNT (the retry is the second request, or
\* the internal error of a request that could not be sent).
C17_RetryForAnyMember ==
    (/\ batch_submission.called
     /\ batch_submission.eth_signature # "None"
     /\ FirstBatchVerificationRejected) =>
        \/ Len(batch_submission.verify_requests) = 2
        \/ batch_submission.result = "Internal"

NothingSentBySubmitTxsBatch ==
    /\ batch_submission.ticker_requests = <<>>
    /\ batch_submission.verify_requests = <<>>
    /\ batch_submission.core_requests = <<>>

\* C18: submit_tx on a close transaction and submit_txs_batch on a batch
\* with a close transaction at any position return AccountCloseDisabled and
\* send nothing to the ticker, the verifier or the core server.
C18_CloseRejected ==
    /\ (submission.called /\ is_close(submission.tx)) =>
          /\ submission.result = "AccountCloseDisabled"
          /\ NothingSentBySubmitTx
    /\ (batch_submission.called /\ AnyClose(batch_submission.txs)) =>
          /\ batch_submission.result = "AccountCloseDisabled"
          /\ NothingSentBySubmitTxsBatch

\* The retry is made when the first member that needs a message has the token GNT.
RetryForFirstToken ==
    (/\ batch_submission.called
     /\ batch_submission.eth_signature # "None"
     /\ FirstBatchVerificationRejected
     /\ \E i \in DeprecatedTokenMembers :
           \A j \in 1..(i - 1) : ~NeedsMessage(batch_submission.txs[j].tx)) =>
        \/ Len(batch_submission.verify_requests) = 2
        \/ batch_submission.result = "Internal"

\* What C18 states of a build without debug assertions.
CloseRejectedWithoutDebugAssertions == ~debug_assertions => C18_CloseRejected

\* A batch whose second member is a close is rejected in such a build.
CloseRejectedWithoutDebugAssertionsWitness ==
    /\ batch_submission.called
    /\ Len(batch_submission.txs) = 2
    /\ ~is_close(batch_submission.txs[1].tx)
    /\ is_close(batch_submission.txs[2].tx)
    /\ batch_submission.result = "AccountCloseDisabled"

\* C19: submit_txs_batch on an empty batch returns an error and sends
\* nothing to the core server, and a batch that is not empty is never
\* stopped by the emptiness guard.
C19_EmptinessGuard ==
    batch_submission.called =>
        /\ batch_submission.txs = <<>> =>
              /\ batch_submission.result # "Ok"
              /\ batch_submission.core_requests = <<>>
        /\ batch_submission.txs # <<>> =>
              batch_submission.result # "panic(Transaction batch cannot be empty)"

\* The first half of C19: an empty batch is never accepted.
EmptyBatchRejected ==
    (batch_submission.called /\ batch_submission.txs = <<>>) =>
        /\ batch_submission.result \in {"TxAdd(TxBatchFeeTooLow)", "Internal"}
        /\ batch_submission.core_requests = <<>>

\* The tokens of the members that declare a fee other than zero, in order.
FeePayingTokens ==
    LET paying == SelectSeq(batch_submission.txs,
                            LAMBDA member : /\ get_fee_info(member.tx).tx_type # "None"
                                            /\ get_fee_info(member.tx).provided_fee # 0)
    IN  [i \in DOMAIN paying |-> paying[i].tx.token]

\* The IsTokenAllowed queries of the call, in order.
TokenAllowedQueries ==
    SelectSeq(batch_submission.ticker_requests, LAMBDA req : req.request = "IsTokenAllowed")

\* C20: submit_txs_batch asks the ticker whether a token is allowed only
\* for the members that declare a fee other than zero, in their order; an
\* answer "not allowed" rejects the batch with InappropriateFeeToken, and
\* InappropriateFeeToken is returned for no other reason, so a member with a
\* fee of zero never causes it.
C20_ZeroFeeExempt ==
    batch_submission.called =>
        LET queries == TokenAllowedQueries
        IN  /\ Len(queries) <= Len(FeePayingTokens)
            /\ \A i \in DOMAIN queries : queries[i].token = FeePayingTokens[i]
            /\ \A i \in DOMAIN queries :
                  queries[i].answer.status = "NotAllowed" =>
                      batch_submission.result = "InappropriateFeeToken"
            /\ batch_submission.result = "InappropriateFeeToken" =>
                  /\ queries # <<>>
                  /\ queries[Len(queries)].answer.status = "NotAllowed"

\* A batch of a member without fee and a paying one is rejected for the
\* token of the paying member, the only one the ticker is asked about.
C20_Witness ==
    /\ batch_submission.called
    /\ Len(batch_submission.txs) = 2
    /\ batch_submission.txs[1].tx.fee = 0
    /\ batch_submission.txs[1].tx.token = "GNT"
    /\ batch_submission.txs[2].tx.fee = 1
    /\ batch_submission.txs[2].tx.token = "ETH"
    /\ Len(TokenAllowedQueries) = 1
    /\ TokenAllowedQueries[1].token = "ETH"
    /\ batch_submission.result = "InappropriateFeeToken"

\* Such a batch is accepted when the token of the paying member is allowed.
C20_WitnessAccepted ==
    /\ batch_submission.called
    /\ Len(batch_submission.txs) = 2
    /\ batch_submission.txs[1].tx.fee = 0
    /\ batch_submission.txs[1].tx.token = "GNT"
    /\ batch_submission.txs[2].tx.fee = 1
    /\ Len(TokenAllowedQueries) = 1
    /\ batch_submission.result = "Ok"

(***************************************************************************)
(* Properties of the fee gate of submit_txs_batch. Amounts in USD are      *)
(* counted in thousandths, the unit of the prices.                         *)
(***************************************************************************)
\* The requests of a kind that reached the ticker during the call, in order.
BatchTickerRequests(request) ==
    SelectSeq(batch_submission.ticker_requests, LAMBDA req : req.request = request)

\* The comparison was made: the ticker gave the required fee of the batch
\* and then the price of ETH, the last answer of the call.
FeeGateReached ==
    LET log == batch_submission.ticker_requests
    IN  /\ Len(log) >= 2
        /\ log[Len(log) - 1].request = "GetBatchTxFee"
        /\ log[Len(log) - 1].answer.status = "Ok"
        /\ log[Len(log)].request = "GetTokenPrice"
        /\ log[Len(log)].answer.status = "Ok"

\* The fees the members declare, those of zero left out, in order.
DeclaredFees ==
    LET paying == SelectSeq(batch_submission.txs, LAMBDA member : member.tx.fee # 0)
    IN  [i \in DOMAIN paying |-> paying[i].tx.fee]

RECURSIVE SumOfProducts(_, _, _)
SumOfProducts(amounts, prices, i) ==
    IF i > Len(amounts) THEN 0
    ELSE amounts[i] * prices[i].answer.value + SumOfProducts(amounts, prices, i + 1)

\* P: the sum over the members of the declared fee times the unit price the
\* ticker gave for its token.
ProvidedTotalUsd == SumOfProducts(DeclaredFees, BatchTickerRequests("GetTokenPrice"), 1)

\* R: the required fee in ETH times the unit price of ETH.
RequiredTotalUsd ==
    LET log == batch_submission.ticker_requests
    IN  log[Len(log) - 1].answer.value * log[Len(log)].answer.value

\* 100 * scale_user_fee_up(p) for p thousandths: twice p below one cent,
\* otherwise the greater of 1.05 * p and p + 0.01.
ScaledHundredfold(p) == IF p < 10 THEN 200 * p ELSE Greater(105 * p, 100 * p + 1000)

PassedFeeGate == batch_submission.result # "TxAdd(TxBatchFeeTooLow)"

C21_WitnessEqual ==
    /\ batch_submission.called
    /\ FeeGateReached
    /\ ProvidedTotalUsd = 4
    /\ RequiredTotalUsd = 8
    /\ ~PassedFeeGate

(***************************************************************************)
(* Properties of the verification and forwarding of a batch.               *)
(***************************************************************************)
\* The transactions of the call, in the order of submission.
SubmittedTxs == [i \in DOMAIN batch_submission.txs |-> batch_submission.txs[i].tx]

\* The transactions of a sequence of SignedZkSyncTx.
TxsOf(signed) == [i \in DOMAIN signed |-> signed[i].tx]

\* The verification requests of the call that the verifier accepted.
AcceptedVerifications ==
    SelectSeq(batch_submission.verify_requests, LAMBDA req : req.answer.status = "Ok")

\* C22: submit_txs_batch keeps the order of submission: a request for the
\* whole batch holds the transactions in that order and its message is the
\* digest of their encodings in that order; without an aggregate signature
\* the i-th accepted request holds the i-th transaction; the batch sent to
\* the core server holds the transactions in that order; and the i-th hash
\* returned is the hash of the i-th transaction (none is returned on error).
C22_OrderPreserved ==
    batch_submission.called =>
        /\ \A k \in DOMAIN batch_submission.verify_requests :
              LET req == batch_submission.verify_requests[k]
              IN  req.variant = "Batch" =>
                      /\ TxsOf(req.txs) = SubmittedTxs
                      /\ req.batch_sign_data.message = [keccak256 |-> SubmittedTxs]
        /\ batch_submission.eth_signature = "None" =>
              /\ Len(AcceptedVerifications) <= Len(SubmittedTxs)
              /\ \A i \in DOMAIN AcceptedVerifications :
                    /\ AcceptedVerifications[i].variant = "Tx"
                    /\ TxsOf(AcceptedVerifications[i].txs) = << SubmittedTxs[i] >>
        /\ \A k \in DOMAIN batch_submission.core_requests :
              TxsOf(batch_submission.core_requests[k].txs) = SubmittedTxs
        /\ batch_submission.result = "Ok" =>
              batch_submission.tx_hashes =
                  [i \in DOMAIN SubmittedTxs |-> [sha256 |-> << SubmittedTxs[i] >>]]
        /\ batch_submission.result # "Ok" => batch_submission.tx_hashes = <<>>

\* A batch of two different transactions with an aggregate signature is
\* verified, forwarded and answered with two hashes.
C22_Witness ==
    /\ batch_submission.called
    /\ batch_submission.eth_signature # "None"
    /\ Len(batch_submission.txs) = 2
    /\ batch_submission.txs[1].tx # batch_submission.txs[2].tx
    /\ Len(batch_submission.verify_requests) = 1
    /\ Len(batch_submission.core_requests) = 1
    /\ batch_submission.result = "Ok"
    /\ Len(batch_submission.tx_hashes) = 2

\* The same without an aggregate signature: one request for each member.
C22_WitnessEach ==
    /\ batch_submission.called
    /\ batch_submission.eth_signature = "None"
    /\ Len(batch_submission.txs) = 2
    /\ batch_submission.txs[1].tx # batch_submission.txs[2].tx
    /\ Len(batch_submission.verify_requests) = 2
    /\ batch_submission.result = "Ok"
    /\ Len(batch_submission.tx_hashes) = 2

\* The number of requests the verifier accepted before request k.
AcceptedBefore(k) ==
    Cardinality({ j \in 1..(k - 1) : batch_submission.verify_requests[j].answer.status = "Ok" })

\* The errors of a verification that fails before a request reaches the
\* verifier: no signature, no token, or a request that could not be sent.
ErrorsBeforeVerifier ==
    {"TxAdd(MissingEthSignature)", "Other(Token not found in the DB)", "Internal"}

\* C23: without an aggregate signature the members are verified one by one
\* in the order of submission, each as a single transaction: a request is
\* for the member that follows those already accepted, and a member gets at
\* most two requests (the second is the retry for GNT). When a member is not
\* accepted, no request is made for a later member, the call returns the
\* error of that member's verification (also when it failed before a
\* request was made) and nothing is sent to the core server.
C23_EachMemberInTurn ==
    (batch_submission.called /\ batch_submission.eth_signature = "None") =>
        LET requests == batch_submission.verify_requests
            accepted == AcceptedBefore(Len(requests) + 1)
            pending == { k \in DOMAIN requests : AcceptedBefore(k) = accepted
                                                 /\ requests[k].answer.status # "Ok" }
        IN  /\ accepted <= Len(SubmittedTxs)
            /\ \A k \in DOMAIN requests :
                  /\ requests[k].variant = "Tx"
                  /\ AcceptedBefore(k) < Len(SubmittedTxs)
                  /\ TxsOf(requests[k].txs) = << SubmittedTxs[AcceptedBefore(k) + 1] >>
                  /\ Cardinality({ j \in DOMAIN requests :
                                     AcceptedBefore(j) = AcceptedBefore(k) }) <= 2
            /\ batch_submission.core_requests # <<>> => accepted = Len(SubmittedTxs)
            /\ (requests # <<>> /\ accepted < Len(SubmittedTxs)) =>
                  /\ batch_submission.core_requests = <<>>
                  /\ batch_submission.tx_hashes = <<>>
                  /\ batch_submission.result \in
                        { VerifyError(requests[k].answer) : k \in pending }
                            \cup ErrorsBeforeVerifier
            /\ (requests = <<>> /\ SubmittedTxs # <<>> /\ FeeGateReached /\ PassedFeeGate) =>
                  batch_submission.result \in ErrorsBeforeVerifier

\* The first of two different members is rejected by the verifier: the call
\* returns that error after one request.
C23_Witness ==
    /\ batch_submission.called
    /\ batch_submission.eth_signature = "None"
    /\ Len(batch_submission.txs) = 2
    /\ batch_submission.txs[1].tx # batch_submission.txs[2].tx
    /\ batch_submission.txs[1].tx.token = "ETH"
    /\ Len(batch_submission.verify_requests) = 1
    /\ batch_submission.verify_requests[1].answer.status = "IncorrectEthSignature"
    /\ batch_submission.result = "TxAdd(IncorrectEthSignature)"
    /\ batch_submission.core_requests = <<>>

\* The second member fails after the first was accepted.
C23_WitnessSecond ==
    /\ batch_submission.called
    /\ batch_submission.eth_signature = "None"
    /\ Len(batch_submission.txs) = 2
    /\ Len(batch_submission.verify_requests) = 1
    /\ batch_submission.verify_requests[1].answer.status = "Ok"
    /\ batch_submission.result = "TxAdd(MissingEthSignature)"
    /\ batch_submission.core_requests = <<>>

(***************************************************************************)
(* Properties of the requests to a closed channel.                         *)
(***************************************************************************)
\* Was the channel of the reply of some request of the log closed before
\* the reply arrived?
ReplyDropped(log) == \E k \in DOMAIN log : log[k].answer.status = "RecvErr"

LastReplyDropped(log) == log # <<>> /\ log[Len(log)].answer.status = "RecvErr"

\* C24: a call of submit_tx or submit_txs_batch during which the ticker or
\* the verifier dropped the channel of a reply (of the last verification
\* request, or of any request to the ticker, the IsTokenAllowed query
\* included) returns an internal error to its caller.
C24_ClosedChannelIsInternalError ==
    /\ (submission.called
          /\ (ReplyDropped(submission.ticker_requests)
                \/ LastReplyDropped(submission.verify_requests))) =>
          submission.result = "Internal"
    /\ (batch_submission.called
          /\ (ReplyDropped(batch_submission.ticker_requests)
                \/ LastReplyDropped(batch_submission.verify_requests))) =>
          batch_submission.result = "Internal"

\* The requests of a log other than the IsTokenAllowed queries.
OtherThanTokenAllowed(log) == SelectSeq(log, LAMBDA req : req.request # "IsTokenAllowed")

\* For every request but the IsTokenAllowed query the call returns an
\* internal error.
ClosedChannelIsInternalErrorForOthers ==
    /\ (submission.called
          /\ (ReplyDropped(OtherThanTokenAllowed(submission.ticker_requests))
                \/ LastReplyDropped(submission.verify_requests))) =>
          submission.result = "Internal"
    /\ (batch_submission.called
          /\ (ReplyDropped(OtherThanTokenAllowed(batch_submission.ticker_requests))
                \/ LastReplyDropped(batch_submission.verify_requests))) =>
          batch_submission.result = "Internal"

\* The reply of a GetTxFee request and the one of a verification request
\* were dropped, in two calls.
ClosedChannelIsInternalErrorForOthersWitness ==
    \/ /\ submission.called
       /\ ReplyDropped(OtherThanTokenAllowed(submission.ticker_requests))
       /\ submission.result = "Internal"
    \/ /\ batch_submission.called
       /\ LastReplyDropped(batch_submission.verify_requests)
       /\ batch_submission.result = "Internal"

\* The call panics when the reply of the IsTokenAllowed query is dropped.
TokenAllowedReplyDroppedPanics ==
    /\ (submission.called /\ ReplyDropped(submission.ticker_requests)
          /\ ~ReplyDropped(OtherThanTokenAllowed(submission.ticker_requests))) =>
          submission.result = "panic"
    /\ (batch_submission.called /\ ReplyDropped(batch_submission.ticker_requests)
          /\ ~ReplyDropped(OtherThanTokenAllowed(batch_submission.ticker_requests))) =>
          batch_submission.result = "panic"

(***************************************************************************)
(* Properties of the SignedZkSyncTx built by the calls.                    *)
(***************************************************************************)
\* The SignedZkSyncTx sent to the verifier and to the core server by the
\* call of submit_tx and by the call of submit_txs_batch.
SignedBySubmitTx ==
    { req.signed : req \in Range(submission.verify_requests) \cup Range(submission.core_requests) }

SignedBySubmitTxsBatch ==
    UNION { Range(req.txs) :
              req \in Range(batch_submission.verify_requests)
                        \cup Range(batch_submission.core_requests) }

HasSignData(signed) == signed.eth_sign_data # NoSignData

\* The positions of the members that need a signed message and have no
\* signature of their own.
UnsignedMembers ==
    { i \in DOMAIN batch_submission.txs :
        /\ NeedsMessage(batch_submission.txs[i].tx)
        /\ batch_submission.txs[i].signature = "None" }

\* C25 as stated: every SignedZkSyncTx built for a Transfer or a Withdraw,
\* alone or as a member of a batch, has eth_sign_data.
C25_SignDataPresent ==
    \A signed \in SignedBySubmitTx \cup SignedBySubmitTxsBatch :
        NeedsMessage(signed.tx) => HasSignData(signed)

\* C25: a SignedZkSyncTx built by submit_tx, or by submit_txs_batch without
\* an aggregate signature, has eth_sign_data exactly when its kind needs a
\* signed message, and a Transfer or Withdraw without signature is rejected
\* with MissingEthSignature once its token was found, nothing being sent
\* for it. In a batch with an aggregate signature a member has
\* eth_sign_data exactly when its kind needs a message and the member has a
\* signature of its own: a member without one is built without sign data
\* and is not rejected for it.
C25_SignDataUnlessAggregate ==
    /\ \A signed \in SignedBySubmitTx : HasSignData(signed) <=> NeedsMessage(signed.tx)
    /\ (submission.called /\ NeedsMessage(submission.tx) /\ submission.signature = "None") =>
          /\ SignedBySubmitTx = {}
          /\ submission.token.status = "Found" =>
                submission.result = "TxAdd(MissingEthSignature)"
    /\ (batch_submission.called /\ batch_submission.eth_signature = "None") =>
          /\ \A signed \in SignedBySubmitTxsBatch :
                HasSignData(signed) <=> NeedsMessage(signed.tx)
          /\ UnsignedMembers # {} => batch_submission.core_requests = <<>>
    /\ (batch_submission.called /\ batch_submission.eth_signature # "None") =>
          /\ batch_submission.result # "TxAdd(MissingEthSignature)"
          /\ \A req \in Range(batch_submission.verify_requests)
                          \cup Range(batch_submission.core_requests) :
             \A i \in DOMAIN req.txs :
                HasSignData(req.txs[i]) <=>
                    /\ NeedsMessage(batch_submission.txs[i].tx)
                    /\ batch_submission.txs[i].signature # "None"

\* A Transfer without signature is rejected with MissingEthSignature.
C25_Witness ==
    /\ submission.called
    /\ submission.tx.kind = "Transfer"
    /\ submission.signature = "None"
    /\ submission.token.status = "Found"
    /\ submission.verify_requests = <<>>
    /\ submission.result = "TxAdd(MissingEthSignature)"

\* A batch with an aggregate signature is forwarded with a Transfer that
\* has no sign data.
C25_WitnessAggregate ==
    /\ batch_submission.called
    /\ batch_submission.eth_signature # "None"
    /\ UnsignedMembers # {}
    /\ batch_submission.result = "Ok"
    /\ \E signed \in SignedBySubmitTxsBatch : NeedsMessage(signed.tx) /\ ~HasSignData(signed)

(***************************************************************************)
(* Properties of what reaches the core server.                             *)
(***************************************************************************)
\* The fee block of submit_tx let the transaction through: its token is
\* allowed, the ticker gave the required fee, and the scaled declared fee is
\* above it unless enforcement is skipped.
SubmitTxFeeChecksPassed ==
    /\ ~is_close(submission.tx)
    /\ TickerAnswers("IsTokenAllowed") # {}
    /\ \A allowed \in TickerAnswers("IsTokenAllowed") : allowed.status = "Allowed"
    /\ RequiredFees # {}
    /\ \A required \in RequiredFees :
          ~Insufficient(required, submission.tx.fee) \/ EnforcementSkipped

\* The fee block of submit_txs_batch let the batch through: the token of
\* every member that declares a fee is allowed and the scaled sum of the
\* declared fees is above the required fee.
SubmitTxsBatchFeeChecksPassed ==
    /\ ~\E i \in DOMAIN SubmittedTxs : is_close(SubmittedTxs[i])
    /\ Len(TokenAllowedQueries) = Len(DeclaredFees)
    /\ \A i \in DOMAIN TokenAllowedQueries : TokenAllowedQueries[i].answer.status = "Allowed"
    /\ FeeGateReached
    /\ ScaledHundredfold(ProvidedTotalUsd) > 100 * RequiredTotalUsd

RECURSIVE Flatten(_, _)
Flatten(seqs, i) == IF i > Len(seqs) THEN <<>> ELSE seqs[i] \o Flatten(seqs, i + 1)

\* The batch the verifier accepted: the transactions of the last request
\* for the whole batch, or those of the accepted requests of the members.
VerifiedBatch ==
    LET requests == batch_submission.verify_requests
    IN  IF batch_submission.eth_signature # "None"
        THEN IF requests # <<>> /\ requests[Len(requests)].answer.status = "Ok"
                  /\ requests[Len(requests)].variant = "Batch"
             THEN requests[Len(requests)].txs ELSE <<>>
        ELSE IF Len(AcceptedVerifications) = Len(SubmittedTxs)
             THEN Flatten([i \in DOMAIN AcceptedVerifications |-> AcceptedVerifications[i].txs], 1)
             ELSE <<>>

\* C26: in any sequence of calls, a verification request is sent only after
\* the fee checks of the call passed, and a transaction or a batch is sent
\* to the core server only after the fee checks passed and the verifier
\* accepted it: what is sent to the core server is what the verifier
\* accepted last, once.
C26_ForwardedOnlyIfAdmitted ==
    /\ (submission.called /\ submission.verify_requests # <<>>) => SubmitTxFeeChecksPassed
    /\ (submission.called /\ submission.core_requests # <<>>) =>
          LET requests == submission.verify_requests
          IN  /\ SubmitTxFeeChecksPassed
              /\ requests # <<>>
              /\ requests[Len(requests)].answer.status = "Ok"
              /\ Len(submission.core_requests) = 1
              /\ submission.core_requests[1].signed = requests[Len(requests)].signed
    /\ (batch_submission.called /\ batch_submission.verify_requests # <<>>) =>
          SubmitTxsBatchFeeChecksPassed
    /\ (batch_submission.called /\ batch_submission.core_requests # <<>>) =>
          /\ SubmitTxsBatchFeeChecksPassed
          /\ SubmittedTxs # <<>>
          /\ VerifiedBatch # <<>>
          /\ Len(batch_submission.core_requests) = 1
          /\ batch_submission.core_requests[1].txs = VerifiedBatch
          /\ batch_submission.core_requests[1].signature = batch_submission.eth_signature

\* A transfer whose fee is sufficient and whose signature is accepted
\* reaches the core server.
C26_Witness ==
    /\ submission.called
    /\ submission.tx.kind = "Transfer"
    /\ submission.tx.fee = 2
    /\ RequiredFees = {2}
    /\ Len(submission.verify_requests) = 1
    /\ Len(submission.core_requests) = 1

\* A batch that declares a fee reaches the core server.
C26_WitnessBatch ==
    /\ batch_submission.called
    /\ DeclaredFees # <<>>
    /\ FeeGateReached
    /\ RequiredTotalUsd > 0
    /\ Len(batch_submission.core_requests) = 1

(***************************************************************************)
(* Properties of the pending withdrawals.                                  *)
(***************************************************************************)
\* The transaction of a Block request commits in this step.
BlockCommits ==
    /\ committer.request.type = "Block"
    /\ committed_requests' = Append(committed_requests, committer.request.id)

\* C27: the step that commits a Block request adds to the pending
\* withdrawals exactly the hashes of the executed operations of the block
\* that are transactions, succeeded and are Withdraws, and nothing for a
\* failed Withdraw, another transaction or a priority operation.
C27_PendingWithdrawalsExact ==
    [][BlockCommits =>
          LET ops == committer.request.block_transactions
              n == committer.request.number
          IN  storage'.pending_withdrawals \ storage.pending_withdrawals =
                  { <<n, i>> : i \in { j \in DOMAIN ops :
                                         /\ ops[j].op = "Tx"
                                         /\ ops[j].success
                                         /\ ops[j].is_withdraw } }]_vars

\* Two blocks are committed, one with a successful Withdraw and one
\* without: the pending withdrawals are those of the first.
C27_Witness ==
    \E g, h \in BlockHeaders :
        /\ g.id \in Range(committed_requests)
        /\ h.id \in Range(committed_requests)
        /\ g.withdrawals # {}
        /\ h.withdrawals = {}
        /\ storage.pending_withdrawals = g.withdrawals

(***************************************************************************)
(* Properties of last_verified_block.                                      *)
(***************************************************************************)
\* The Verify operations in storage, by block.
VerifyOperations(n) ==
    { i \in DOMAIN storage.operations :
        storage.operations[i].action = "Verify" /\ storage.operations[i].block = n }

\* The highest block that has a Verify operation in storage, 0 for none.
HighestVerified ==
    IF \A n \in 1..Len(storage.operations) : VerifyOperations(n) = {} THEN 0
    ELSE CHOOSE n \in 1..Len(storage.operations) :
            /\ VerifyOperations(n) # {}
            /\ \A m \in (n + 1)..Len(storage.operations) : VerifyOperations(m) = {}

\* The polling task appends a Verify operation to its transaction.
VerifyAppended ==
    /\ poller.state = "running"
    /\ Len(poller'.transaction.operations) > Len(poller.transaction.operations)

\* The counter is loaded (start of the task) or dropped (panic).
CounterLoadedOrDropped ==
    \/ poller.pc = "get_last_verified_block"
    \/ poller'.state = "panicked"

\* C29: while the polling task runs, last_verified_block is the highest
\* block with a Verify operation in storage whenever an iteration of the
\* inner loop starts (before load_proof); it changes only by the increment
\* of 1 that goes with the appending of the Verify operation of that block;
\* and no block has two Verify operations.
C29_CounterFollowsStorage ==
    /\ [](PollerAt("load_proof") => poller.last_verified_block = HighestVerified)
    /\ [](\A n \in 1..Len(storage.operations) : Cardinality(VerifyOperations(n)) <= 1)
    /\ [][/\ VerifyAppended =>
                /\ poller'.last_verified_block = poller.last_verified_block + 1
                /\ poller'.transaction.operations =
                      Append(poller.transaction.operations,
                             [action |-> "Verify", block |-> poller'.last_verified_block])
          /\ (poller'.last_verified_block # poller.last_verified_block
                /\ ~CounterLoadedOrDropped) =>
                /\ VerifyAppended
                /\ poller'.last_verified_block > poller.last_verified_block]_vars

\* The inner loop starts its third iteration: two blocks were verified.
C29_Witness ==
    /\ PollerAt("load_proof")
    /\ poller.last_verified_block = InitVerified + 2
    /\ HighestVerified = InitVerified + 2
    /\ Cardinality(VerifyOperations(InitVerified + 1)) = 1

(***************************************************************************)
(* Properties of the shutdown.                                             *)
(***************************************************************************)
\* The step in which the process exits.
ProcessExits == ~Exited /\ Exited'

\* Has a storage transaction been written through and not committed?
InFlight(tx) ==
    /\ tx.open
    /\ \/ tx.pending_withdrawals # {}
       \/ tx.account_updates # {}
       \/ tx.pending_blocks # {}
       \/ tx.operations # <<>>

\* Every write of the transaction is in a storage.
Published(tx, st) ==
    /\ tx.pending_withdrawals \subseteq st.pending_withdrawals
    /\ tx.account_updates \subseteq st.account_updates
    /\ tx.pending_blocks \subseteq st.pending_blocks
    /\ Range(tx.operations) \subseteq Range(st.operations)

\* C28: when the process exits on a stop signal, a storage transaction that
\* handle_new_commit_task or poll_for_new_proofs_task had written through
\* and not yet committed is committed first: its writes are in storage when
\* the process is gone.
C28_InFlightTransactionFinished ==
    [][ProcessExits =>
          /\ InFlight(committer.transaction) => Published(committer.transaction, storage')
          /\ InFlight(poller.transaction) => Published(poller.transaction, storage')]_vars

\* The exit commits nothing: it leaves the storage as it was.
StopSignalLeavesStorage == [][ProcessExits => storage' = storage]_vars

(***************************************************************************)
(* Liveness of the verification.                                           *)
(***************************************************************************)
\* The blocks of the model.
BlockNumbers == 1..(InitVerified + LiveRequests)

\* No call to storage has failed.
NoStorageFailure == committer.result # "Err" /\ poller.result # "Err"

\* Block n is committed and the blocks after the last verified one up to n
\* have their proofs.
ReadyToVerify(n) ==
    /\ \E i \in DOMAIN storage.operations :
          storage.operations[i].action = "Commit" /\ storage.operations[i].block = n
    /\ \A m \in (HighestVerified + 1)..n : m \in storage.proofs

HasVerify(n) == VerifyOperations(n) # {}

\* C30: if no call to storage fails and the polling task is scheduled
\* fairly (its timer ticks), a committed block whose proof and those of the
\* blocks after the last verified one are in storage eventually gets its
\* Verify operation.
C30_EventuallyVerified ==
    []NoStorageFailure =>
        \A n \in BlockNumbers : ReadyToVerify(n) ~> HasVerify(n)

\* Two blocks are committed and proven, none of them is verified yet, and
\* the polling task waits for its tick.
C30_Witness ==
    /\ PollerAt("tick")
    /\ NoStorageFailure
    /\ HighestVerified = InitVerified
    /\ ReadyToVerify(InitVerified + 2)
    /\ ~HasVerify(InitVerified + 1)

(***************************************************************************)
(* Properties of the members of a batch that declare a fee of zero.        *)
(***************************************************************************)
\* The fee types of the members that declare a fee other than zero, in order.
PayingTypes ==
    LET paying == SelectSeq(batch_submission.txs,
                            LAMBDA member : /\ get_fee_info(member.tx).tx_type # "None"
                                            /\ get_fee_info(member.tx).provided_fee # 0)
    IN  [i \in DOMAIN paying |-> get_fee_info(paying[i].tx).tx_type]

\* The members that declare a fee of zero.
ZeroFeeMembers ==
    { i \in DOMAIN batch_submission.txs : batch_submission.txs[i].tx.fee = 0 }

\* C31: in submit_txs_batch the members that declare a fee of zero are on
\* neither side of the fee comparison: the list of the GetBatchTxFee request
\* holds one entry for each member that declares a fee other than zero, in
\* the order of the batch, and none for the others; and the ticker is asked
\* for the token and the price of the paying members only, so that the
\* provided total has no term for a member of zero fee.
C31_ZeroFeeMembersLeftOut ==
    batch_submission.called =>
        /\ \A i \in DOMAIN batch_submission.ticker_requests :
              batch_submission.ticker_requests[i].request = "GetBatchTxFee" =>
                  batch_submission.ticker_requests[i].transactions = PayingTypes
        /\ Len(BatchTickerRequests("IsTokenAllowed")) <= Len(PayingTypes)
        /\ FeeGateReached =>
              /\ Len(BatchTickerRequests("GetBatchTxFee")) = 1
              /\ Len(BatchTickerRequests("IsTokenAllowed")) = Len(PayingTypes)
              /\ Len(BatchTickerRequests("GetTokenPrice")) = Len(PayingTypes) + 1

\* A batch of a member of zero fee and a paying one: the request for the
\* required fee lists the paying member alone.
C31_Witness ==
    /\ batch_submission.called
    /\ FeeGateReached
    /\ Len(batch_submission.txs) = 2
    /\ batch_submission.txs[1].tx.fee = 0
    /\ batch_submission.txs[1].tx.kind = "ChangePubKey"
    /\ batch_submission.txs[2].tx.fee = 1
    /\ BatchTickerRequests("GetBatchTxFee")[1].transactions = <<"Transfer">>

\* A batch whose members all declare a fee of zero: the list is empty.
C31_WitnessAllZero ==
    /\ batch_submission.called
    /\ FeeGateReached
    /\ Len(batch_submission.txs) = 2
    /\ ZeroFeeMembers = {1, 2}
    /\ BatchTickerRequests("GetBatchTxFee")[1].transactions = <<>>
    /\ Len(batch_submission.ticker_requests) = 2

(***************************************************************************)
(* Properties of a declared fee of zero at the fee gates.                  *)
(***************************************************************************)
\* Every member of the batch declares a fee of zero (so does an empty batch).
AllZeroFee == \A i \in DOMAIN batch_submission.txs : batch_submission.txs[i].tx.fee = 0

\* C32: a declared fee of zero never passes an enforced fee gate, whatever
\* the required fee, zero included. scale_user_fee_up(0) is 0; a call of
\* submit_tx with a declared fee of zero that got the required fee from the
\* ticker, enforcement not skipped, returns TxFeeTooLow; a call of
\* submit_txs_batch whose members all declare a fee of zero, or that has no
\* member, and whose fee comparison was made returns TxBatchFeeTooLow; and
\* neither call sends anything to the verifier or to the core server.
C32_ZeroFeeNeverPasses ==
    /\ BdEq(scale_user_fee_up(BigDecimal(0, 0)), BigDecimal(0, 0))
    /\ (submission.called /\ submission.tx.fee = 0 /\ ~EnforcementSkipped) =>
          /\ RequiredFees # {} => submission.result = "TxAdd(TxFeeTooLow)"
          /\ submission.result # "Ok"
          /\ submission.verify_requests = <<>>
          /\ submission.core_requests = <<>>
    /\ (batch_submission.called /\ AllZeroFee) =>
          /\ FeeGateReached => batch_submission.result = "TxAdd(TxBatchFeeTooLow)"
          /\ batch_submission.result # "Ok"
          /\ batch_submission.verify_requests = <<>>
          /\ batch_submission.core_requests = <<>>

\* A Transfer that declares a fee of zero against a required fee of zero.
C32_Witness ==
    /\ submission.called
    /\ submission.tx.kind = "Transfer"
    /\ submission.tx.fee = 0
    /\ RequiredFees = {0}
    /\ submission.result = "TxAdd(TxFeeTooLow)"

\* A batch of two members of zero fee against a required fee of zero.
C32_WitnessBatch ==
    /\ batch_submission.called
    /\ Len(batch_submission.txs) = 2
    /\ AllZeroFee
    /\ FeeGateReached
    /\ RequiredTotalUsd = 0
    /\ batch_submission.result = "TxAdd(TxBatchFeeTooLow)"

\* An empty batch against a required fee above zero.
C32_WitnessEmpty ==
    /\ batch_submission.called
    /\ batch_submission.txs = <<>>
    /\ FeeGateReached
    /\ RequiredTotalUsd > 0
    /\ batch_submission.result = "TxAdd(TxBatchFeeTooLow)"

====
